---- MODULE Spec2Model ----
(***************************************************************************)
(* Teltonika device gateway: the TCP session of src/deviceServer.js        *)
(* (processBuffer and the socket handlers), the AVL decoder of             *)
(* src/parsers.js and the walk tracker (processWalkTracking with the       *)
(* store functions saveWalkPath / updateWalkPath).                         *)
(*                                                                         *)
(* Buffers are sequences of bytes (0..255).  A suspended `await` on a      *)
(* repository call is a chain record in chains[s]; awaits that only yield  *)
(* to the microtask queue are not interleaving points and are taken        *)
(* atomically.                                                             *)
(***************************************************************************)
EXTENDS Integers, Sequences, FiniteSets, TLC

\* ---------------------------------------------------------------- bounds
MaxSockets == 2
MaxChains == 2
MaxCuts == 1
MaxRecords == 5
MaxTick == 3
MaxGarbage == 1024
MaxResyncSpan == 24
MaxListeners == 3
MaxConnecting == 6
MaxGateTicks == 1
MaxCalls == 2
MaxSteps == 2
ChunkSize == 65536
ChunkBlock == 8192
FullChunks == 16
MaxFirstChunk == 4

\* ------------------------------------------------------ program constants
SERVER_START_TIME == 1000
MOVEMENT_THRESHOLD == 60000
IDLE_THRESHOLD == 120000
MIN_PACKET_SIZE == 45
MAX_DATA_LENGTH == 783 * 255
\* RETRY_CONFIG.maxRetries of src/database.js
maxRetries == 3
\* RATE_LIMIT of the server of src/utils.js
maxConnections == 100
maxRequestsPerMinute == 60
requestWindowMs == 60000

\* ------------------------------------------------------------ byte helpers
Byte == 0..255

\* buffer[i] with the 0-based index of the source
At(buf, i) == buf[i + 1]

\* buffer.slice(from): the bytes from 0-based offset `from` to the end
Slice(buf, from) == IF from >= Len(buf) THEN <<>> ELSE SubSeq(buf, from + 1, Len(buf))

\* buffer.slice(0, to)
Head0(buf, to) == IF to >= Len(buf) THEN buf ELSE SubSeq(buf, 1, to)

readUInt16BE(buf, i) == At(buf, i) * 256 + At(buf, i + 1)

\* a value of 2^31 or more is represented by Huge: it is only compared with
\* 0, with buffer lengths and with MAX_DATA_LENGTH, all far below Huge
Huge == 2147483647 - 12
readUInt32BE(buf, i) ==
    IF At(buf, i) >= 128 THEN Huge
    ELSE ((At(buf, i) * 256 + At(buf, i + 1)) * 256 + At(buf, i + 2)) * 256 + At(buf, i + 3)

\* Number(buffer.readBigUInt64BE(i)); the streams of the model keep the
\* upper five bytes zero, so the value fits the integers of the checker
readBigUInt64BE(buf, i) ==
    IF \A k \in 0..4 : At(buf, i + k) = 0
    THEN (At(buf, i + 5) * 256 + At(buf, i + 6)) * 256 + At(buf, i + 7)
    ELSE Huge

\* encoders used to build the byte streams a device sends
U16(x) == << x \div 256, x % 256 >>
U32(x) == << (x \div 16777216) % 256, (x \div 65536) % 256, (x \div 256) % 256, x % 256 >>
U64(x) == << 0, 0, 0, 0 >> \o U32(x)

\* Buffer.alloc(4) + writeUInt32BE(n, 0): the 4-byte acknowledgement
ackBuffer(n) == U32(n)

\* ------------------------------------------------------------ IMEI codec
\* isImeiPacket of src/deviceServer.js
isImeiPacket(buffer) ==
    IF Len(buffer) < 4 THEN FALSE
    ELSE LET imeiLength == readUInt16BE(buffer, 0) IN
         IF imeiLength < 15 \/ imeiLength > 17 \/ Len(buffer) < imeiLength + 2
         THEN FALSE
         ELSE \A i \in 2..(2 + imeiLength - 1) :
                 /\ i < Len(buffer)
                 /\ At(buffer, i) >= 48
                 /\ At(buffer, i) <= 57

\* parseImeiPacket: the ASCII digits, kept as the sequence of their bytes
parseImeiPacket(buffer) ==
    LET imeiLength == readUInt16BE(buffer, 0) IN
    SubSeq(buffer, 3, IF 2 + imeiLength <= Len(buffer) THEN 2 + imeiLength ELSE Len(buffer))

\* ------------------------------------------------------------ AVL decoder
\* value of the movement field of a record: absent, false or true
MvAbsent == 2
\* record.positionSpeed > 3, the threshold of the dispatch loop
SPEED_THRESHOLD_KMH == 3

\* one IO group of parseTeltonikaData: `count` entries of a 1-byte id and a
\* value of `width` bytes, read while they fit into the buffer; only id 240
\* of the 1-byte group sets record.movement.  Result: <<index, movement>>.
RECURSIVE parseIoEntries(_, _, _, _, _, _)
parseIoEntries(buffer, index, count, width, j, mv) ==
    IF j < count /\ index + width + 1 <= Len(buffer)
    THEN LET id == At(buffer, index)
             value == At(buffer, index + 1)
             mv2 == IF width = 1 /\ id = 240 THEN (IF value = 1 THEN 1 ELSE 0) ELSE mv
         IN parseIoEntries(buffer, index + 1 + width, count, width, j + 1, mv2)
    ELSE << index, mv >>

parseIoGroup(buffer, im, width) ==
    IF im[1] + 1 <= Len(buffer)
    THEN parseIoEntries(buffer, im[1] + 1, At(buffer, im[1]), width, 0, im[2])
    ELSE im

\* the IO element of one record, starting at the event IO id
parseIoElement(buffer, index) ==
    IF index + 2 <= Len(buffer)
    THEN parseIoGroup(buffer,
            parseIoGroup(buffer,
               parseIoGroup(buffer,
                  parseIoGroup(buffer, << index + 2, MvAbsent >>, 1), 2), 4), 8)
    ELSE << index, MvAbsent >>

\* readInt32BE followed by the sign handling of the parser; the value is
\* kept in units of 1e-7 degree (the division by 10000000 is not applied)
readCoordinate(buffer, i) ==
    IF At(buffer, i) >= 128
    THEN readUInt32BE(<< At(buffer, i) - 128, At(buffer, i + 1), At(buffer, i + 2), At(buffer, i + 3) >>, 0)
         - 2147483647 - 1
    ELSE readUInt32BE(buffer, i)

\* the body of the record loop: [ok, index, rec]; a throw inside the
\* per-record try leaves index where the failing read found it
parseRecord(buffer, index) ==
    IF index + 8 > Len(buffer) THEN [ok |-> FALSE, index |-> index, rec |-> << >>]
    ELSE IF index + 8 >= Len(buffer) THEN [ok |-> FALSE, index |-> index + 8, rec |-> << >>]
    ELSE IF index + 9 + 15 > Len(buffer) THEN [ok |-> FALSE, index |-> index + 9, rec |-> << >>]
    ELSE LET io == parseIoElement(buffer, index + 24) IN
         [ok |-> TRUE,
          index |-> io[1],
          rec |-> [timestamp |-> readBigUInt64BE(buffer, index),
                   longitude |-> readCoordinate(buffer, index + 9),
                   latitude |-> readCoordinate(buffer, index + 13),
                   speed |-> readUInt16BE(buffer, index + 22),
                   movement |-> io[2]]]

RECURSIVE parseRecords(_, _, _, _, _)
parseRecords(buffer, index, i, numberOfRecords1, records) ==
    IF i >= numberOfRecords1 THEN records
    ELSE LET r == parseRecord(buffer, index) IN
         parseRecords(buffer, r.index, i + 1, numberOfRecords1,
                      IF r.ok THEN Append(records, r.rec) ELSE records)

\* parseTeltonikaData of src/parsers.js: the list of decoded records
parseTeltonikaData(buffer) ==
    IF Len(buffer) < MIN_PACKET_SIZE THEN << >>
    ELSE IF readUInt32BE(buffer, 0) # 0 THEN << >>
    ELSE LET dataFieldLength == readUInt32BE(buffer, 4) IN
         IF dataFieldLength > MAX_DATA_LENGTH THEN << >>
         ELSE IF Len(buffer) < 8 + dataFieldLength + 4 THEN << >>
         ELSE IF At(buffer, 8) # 8 /\ At(buffer, 8) # 142 THEN << >>
         ELSE IF At(buffer, 9) = 0 THEN << >>
         ELSE parseRecords(buffer, 10, 0, At(buffer, 9), << >>)

\* ------------------------------------------------------- JSON recognition
\* JSON.parse(socket.dataBuffer.toString()) succeeds.  The byte streams of
\* the model contain no byte that can start or continue a JSON object,
\* array, string, literal, sign, fraction or exponent, so the only JSON
\* texts are unsigned integers, optionally surrounded by JSON white space.
IsJsonSpace(b) == b \in {9, 10, 13, 32}
IsDigit(b) == b >= 48 /\ b <= 57

RECURSIVE trimLeft(_)
trimLeft(buf) == IF Len(buf) > 0 /\ IsJsonSpace(buf[1]) THEN trimLeft(Tail(buf)) ELSE buf

RECURSIVE trimRight(_)
trimRight(buf) ==
    IF Len(buf) > 0 /\ IsJsonSpace(buf[Len(buf)])
    THEN trimRight(SubSeq(buf, 1, Len(buf) - 1)) ELSE buf

jsonParses(buffer) ==
    LET t == trimRight(trimLeft(buffer)) IN
    /\ Len(t) > 0
    /\ \A i \in 1..Len(t) : IsDigit(t[i])
    /\ (Len(t) > 1 => t[1] # 48)

\* --------------------------------------------------------- JSON objects
\* the decimal digits of a natural number, as ASCII bytes
RECURSIVE Decimal(_)
Decimal(n) == IF n < 10 THEN << 48 + n >> ELSE Decimal(n \div 10) \o << 48 + (n % 10) >>

\* the text {"timestamp":T,"latitude":A,"longitude":O,"positionSpeed":S}
JsonText(r) ==
    << 123, 34, 116, 105, 109, 101, 115, 116, 97, 109, 112, 34, 58 >> \o Decimal(r.timestamp)
    \o << 44, 34, 108, 97, 116, 105, 116, 117, 100, 101, 34, 58 >> \o Decimal(r.latitude)
    \o << 44, 34, 108, 111, 110, 103, 105, 116, 117, 100, 101, 34, 58 >> \o Decimal(r.longitude)
    \o << 44, 34, 112, 111, 115, 105, 116, 105, 111, 110, 83, 112, 101, 101, 100, 34, 58 >> \o Decimal(r.positionSpeed)
    \o << 125 >>

\* the objects a peer sends as JSON payloads: two moving positions that are
\* MOVEMENT_THRESHOLD apart, and a position at rest another 60 s later
JsonRecords ==
    { [timestamp |-> 61000, latitude |-> 7, longitude |-> 9, positionSpeed |-> 5],
      [timestamp |-> 121000, latitude |-> 7, longitude |-> 9, positionSpeed |-> 5],
      [timestamp |-> 181000, latitude |-> 7, longitude |-> 9, positionSpeed |-> 0] }

\* JSON.parse(socket.dataBuffer.toString()) returns an object.  In the byte
\* streams of the model the only buffers that are the text of a JSON object
\* are the texts of JsonRecords: every other buffer with a '{' or a '}' in
\* it holds more than one object or a part of one.
JsonTexts == { JsonText(r) : r \in JsonRecords }
isJsonObject(buffer) == buffer \in JsonTexts
jsonObject(buffer) == CHOOSE r \in JsonRecords : JsonText(r) = buffer

\* ------------------------------------------------------------- the state
Sockets == 1..MaxSockets

\* socket.deviceImei = null, and the key "null" of movementTracker
NoImei == << >>
\* a null Date (movementStartTime, endTime)
NoTime == -1
\* an undefined numeric field of a record
Undefined == -1
\* socket.timeoutHandler = null
NoTimer == 0

VARIABLES
    sockState,       \* per socket: "free" (not accepted yet), "open", "closed" ('close' handled)
    ended,           \* per socket: socket.end() was called, the socket is no longer writable
    dataBuffer,      \* socket.dataBuffer
    deviceImei,      \* socket.deviceImei
    chains,          \* per socket: the processBuffer chains suspended on a repository call
    inflight,        \* per socket: the chunks the peer sent that were not delivered yet
    out,             \* per socket: socket writes, registrations, decoded frames and dispatched records, in order
    activeDevices,   \* the Map activeDevices: imei -> socket
    movementTracker, \* the object movementTracker: imei -> tracker
    pendingPoints,   \* the object pendingPoints: imei -> list of points
    walks,           \* the WalkPath collection of the store, in insertion order
    received,        \* per socket: the bytes delivered by 'data' events so far
    lastMoving,      \* history, imei -> timestamp of the last record classified as moving
    saveLog,         \* history, per socket: the saveDeviceData calls that have returned
    nrecords,        \* number of records handed to processWalkTracking directly
    timeoutHandler,  \* socket.timeoutHandler: the handle of the last no-data timer armed
    pendingTimers,   \* per socket: the handles of the no-data timers that are pending
    isConnected,     \* database.js: the connection state flag
    connectionRetries, \* database.js: reconnection attempts since the last success
    connecting,      \* connectToDatabase calls that are scheduled or awaiting mongoose.connect
    listeners,       \* handler sets registered on mongoose.connection
    procState,       \* "starting" (initializeServers awaits the store), "running", "exited"
    everConnected,   \* history: mongoose.connect has succeeded at least once
    updateCall,      \* database.js: the updateWalkPath call in progress, with its caller
    conn,            \* utils.js server: per accepted connection, the closure variables of its callback
    registry,        \* utils.js server: the Map activeDevices, deviceId -> connection
    requestCounts,   \* utils.js server: the Map requestCounts, deviceId -> request times
    clock,           \* utils.js server: Date.now()
    peers            \* utils.js server: the chunk sequences of the connections still to come

serverVars == << sockState, ended, dataBuffer, deviceImei, chains, inflight, out,
                 activeDevices, movementTracker, pendingPoints, walks, received,
                 lastMoving, saveLog, nrecords, timeoutHandler, pendingTimers >>
storeVars == << isConnected, connectionRetries, connecting, listeners, procState,
                everConnected, updateCall >>
gateVars == << conn, registry, requestCounts, clock, peers >>
vars == << serverVars, storeVars, gateVars >>

\* the part of the state the handlers read and change, as one value
World ==
    [sockState |-> sockState, ended |-> ended, dataBuffer |-> dataBuffer,
     deviceImei |-> deviceImei, chains |-> chains, out |-> out,
     activeDevices |-> activeDevices, movementTracker |-> movementTracker,
     pendingPoints |-> pendingPoints, walks |-> walks,
     lastMoving |-> lastMoving, saveLog |-> saveLog,
     timeoutHandler |-> timeoutHandler, pendingTimers |-> pendingTimers]

SetWorld(w) ==
    /\ sockState' = w.sockState
    /\ ended' = w.ended
    /\ dataBuffer' = w.dataBuffer
    /\ deviceImei' = w.deviceImei
    /\ chains' = w.chains
    /\ out' = w.out
    /\ activeDevices' = w.activeDevices
    /\ movementTracker' = w.movementTracker
    /\ pendingPoints' = w.pendingPoints
    /\ walks' = w.walks
    /\ lastMoving' = w.lastMoving
    /\ saveLog' = w.saveLog
    /\ timeoutHandler' = w.timeoutHandler
    /\ pendingTimers' = w.pendingTimers
    /\ UNCHANGED << storeVars, gateVars >>

\* Map.set / obj[k] = v and Map.delete on a map with a growing key set
Put(f, k, v) == [x \in (DOMAIN f) \cup {k} |-> IF x = k THEN v ELSE f[x]]
Del(f, k) == [x \in (DOMAIN f) \ {k} |-> f[x]]
EmptyMap == [x \in {} |-> 0]

\* the store connection of a server that is up, and no connection accepted
\* by the server of utils.js
\* the null an updateWalkPath call returns; a walk it returns is named by
\* its place in the collection
Null == 0

\* no updateWalkPath call of src/database.js is in progress.  retries is the
\* variable of the call; attempts and errors are its history: the passes
\* through the try block and the error codes that ended them
NoCall ==
    [pc |-> "idle", deviceId |-> NoImei, point |-> << >>, retries |-> 0,
     attempts |-> 0, errors |-> << >>, result |-> -1, calls |-> 0,
     log |-> << >>]

StoreIdle ==
    /\ isConnected = TRUE
    /\ connectionRetries = 0
    /\ connecting = 0
    /\ listeners = 1
    /\ procState = "running"
    /\ everConnected = TRUE
    /\ updateCall = NoCall

GateIdle ==
    /\ conn = EmptyMap
    /\ registry = EmptyMap
    /\ requestCounts = EmptyMap
    /\ clock = 0
    /\ peers = << >>

\* ----------------------------------------------------------- the devices
\* IMEI "353691841005134", "353691841005135" and "123456789012345"
ImeiA == << 51, 53, 51, 54, 57, 49, 56, 52, 49, 48, 48, 53, 49, 51, 52 >>
ImeiB == << 51, 53, 51, 54, 57, 49, 56, 52, 49, 48, 48, 53, 49, 51, 53 >>
ImeiU == << 49, 50, 51, 52, 53, 54, 55, 56, 57, 48, 49, 50, 51, 52, 53 >>

\* the Device collection of the store
KnownDevices == { ImeiA, ImeiB }

\* values `new Date()` can take while the server runs
WallClock == { SERVER_START_TIME, SERVER_START_TIME + 60000 }

\* outcomes of the store calls made for one record: every call succeeds;
\* the first save() throws and a later one succeeds; the calls fail
StoreOutcomes == { "ok", "saveThrows", "fail" }

\* getDeviceInfoByDeviceId of src/database.js: found or null
getDeviceInfoByDeviceId(deviceId) == deviceId \in KnownDevices

\* outcomes of one saveDeviceData call: DeviceData.create resolves or rejects
SaveOutcomes == { "ok", "fail" }

\* saveDeviceData of src/database.js: the timestamps of the documents it
\* appends to DeviceData; only the latest of the records is formatted and
\* created, and a rejected create is caught and answered with null
saveDeviceData(deviceId, records, outcome) ==
    IF Len(records) = 0 THEN << >>
    ELSE LET latestRecord == records[Len(records)] IN
         IF ~getDeviceInfoByDeviceId(deviceId) THEN << >>
         ELSE IF latestRecord.timestamp = Undefined \/ latestRecord.timestamp = 0 THEN << >>
         ELSE IF latestRecord.latitude = Undefined \/ latestRecord.longitude = Undefined
                 \/ (latestRecord.latitude = 0 /\ latestRecord.longitude = 0)
         THEN << >>
         ELSE IF outcome # "ok" THEN << >>
         ELSE << latestRecord.timestamp >>

\* --------------------------------------------------------- the walk store
validPoint(point) == point.latitude # 0 /\ point.longitude # 0
                     /\ point.latitude # Undefined /\ point.longitude # Undefined

\* calculateDistance of utils/geofenceUtils: the haversine distance with
\* Earth radius 6371008.8 m, in micrometres.  Coordinates are in units of
\* 1e-7 degree; between two points of one meridian the haversine distance
\* is the radius times the difference of the latitudes in radians, which is
\* 0.011119508 m for each unit.  The points of the model lie on one
\* meridian; the distance of other pairs is left open.
calculateDistance(lat1, lon1, lat2, lon2) ==
    LET dlat == IF lat1 > lat2 THEN lat1 - lat2 ELSE lat2 - lat1 IN
    IF lon1 = lon2 THEN (dlat * 11119508) \div 1000
    ELSE CHOOSE d \in Nat : TRUE

\* the sum of calculateDistance over the consecutive points of a list
RECURSIVE pathLength(_)
pathLength(points) ==
    IF Len(points) < 2 THEN 0
    ELSE calculateDistance(points[1].latitude, points[1].longitude,
                           points[2].latitude, points[2].longitude)
         + pathLength(Tail(points))

\* Math.round of a distance: micrometres to whole metres
round(micrometres) == (micrometres + 500000) \div 1000000

\* saveWalkPath of src/database.js: [walks, ok]; ok = FALSE is the null result
saveWalkPath(wk, deviceId, points, isActive, startTime, endTime, outcome) ==
    LET validPoints == SelectSeq(points, validPoint) IN
    IF ~getDeviceInfoByDeviceId(deviceId) \/ Len(validPoints) = 0 \/ outcome # "ok"
    THEN [walks |-> wk, ok |-> FALSE]
    ELSE [walks |-> Append(wk,
              [device |-> deviceId,
               isActive |-> isActive,
               startTime |-> IF startTime # NoTime THEN startTime
                             ELSE validPoints[1].timestamp,
               endTime |-> IF endTime # NoTime THEN endTime
                           ELSE validPoints[Len(validPoints)].timestamp,
               coordinates |-> validPoints,
               distance |-> round(pathLength(validPoints))]),
          ok |-> TRUE]

\* findOne without the device in its filter: the first active walk of any device
findActiveWalkAnyDevice(wk, deviceId) ==
    LET hits == { i \in 1..Len(wk) : wk[i].isActive } IN
    IF hits = {} THEN 0 ELSE CHOOSE i \in hits : \A j \in hits : i <= j

\* WalkPath.findOne({device, isActive: true}): index of the first match, 0 if none
findActiveWalk(wk, deviceId) ==
    LET hits == { i \in 1..Len(wk) : wk[i].device = deviceId /\ wk[i].isActive } IN
    IF hits = {} THEN 0 ELSE CHOOSE i \in hits : \A j \in hits : i <= j

\* updateWalkPath of src/deviceServer.js, called with one point
\* (deviceId, lat, lon, timestamp): [walks, ok]
updateWalkPath(wk, deviceId, latitude, longitude, timestamp, now, outcome) ==
    LET point == [latitude |-> latitude, longitude |-> longitude, timestamp |-> timestamp]
        active == findActiveWalk(wk, deviceId)
    IN
    IF ~getDeviceInfoByDeviceId(deviceId) \/ ~validPoint(point) \/ outcome = "fail"
    THEN [walks |-> wk, ok |-> FALSE]
    ELSE IF active = 0
    THEN [walks |-> Append(wk,
              [device |-> deviceId,
               isActive |-> TRUE,
               startTime |-> IF outcome = "saveThrows" THEN now ELSE timestamp,
               endTime |-> NoTime,
               coordinates |-> << point >>,
               distance |-> IF outcome = "saveThrows" THEN Undefined ELSE 0]),
          ok |-> TRUE]
    ELSE IF outcome = "saveThrows" THEN [walks |-> wk, ok |-> FALSE]
    ELSE LET prev == wk[active].coordinates[Len(wk[active].coordinates)]
             totalDistance == (IF wk[active].distance = Undefined THEN 0
                               ELSE wk[active].distance * 1000000)
                              + calculateDistance(prev.latitude, prev.longitude,
                                                  latitude, longitude)
         IN [walks |-> [wk EXCEPT ![active].coordinates = Append(@, point),
                                  ![active].endTime = timestamp,
                                  ![active].distance = round(totalDistance)],
             ok |-> TRUE]

\* --------------------------------------------------------- walk tracking
newTracker(now) ==
    [lastMovement |-> now, movementStartTime |-> NoTime, falseDuration |-> 0, isSaving |-> FALSE]

\* record.positionSpeed || 0
speedOf(record) == IF record.positionSpeed = Undefined THEN 0 ELSE record.positionSpeed

\* !lat || !lon || lat === 0 || lon === 0
invalidCoordinates(lat, lon) == lat = Undefined \/ lon = Undefined \/ lat = 0 \/ lon = 0

\* speed > 0.5 with speed = record.positionSpeed || 0
isMoving(record) == 2 * speedOf(record) > 1

\* deviceTracker.falseDuration >= IDLE_THRESHOLD && deviceTracker.isSaving
idleReached(falseDuration, isSaving) == falseDuration >= IDLE_THRESHOLD /\ isSaving

\* processWalkTracking of src/deviceServer.js from its entry to its await
\* on a store call: the world, the call it waits for ("open" for
\* saveWalkPath, "update" for updateWalkPath, "none" when it ran to its end
\* without one) and the points handed to saveWalkPath.  lastMovement is
\* assigned after the await.
trackBegin(w, imei, record, now) ==
    LET mt0 == IF imei \in DOMAIN w.movementTracker THEN w.movementTracker
               ELSE Put(w.movementTracker, imei, newTracker(now))
        deviceTracker == mt0[imei]
        timestamp == record.timestamp
        lat == record.latitude
        lon == record.longitude
        wm == [w EXCEPT !.lastMoving = Put(@, imei, timestamp)]
    IN
    IF invalidCoordinates(lat, lon)
    THEN [w |-> [w EXCEPT !.movementTracker = mt0], call |-> "none", points |-> << >>]
    ELSE IF isMoving(record)
    THEN LET movementStartTime == IF deviceTracker.movementStartTime = NoTime THEN timestamp
                                  ELSE deviceTracker.movementStartTime
             pp0 == IF imei \in DOMAIN w.pendingPoints THEN w.pendingPoints[imei]
                    ELSE << >>
             pp1 == Append(pp0, [latitude |-> lat, longitude |-> lon, timestamp |-> timestamp])
             movementDuration == timestamp - movementStartTime
             opening == ~deviceTracker.isSaving /\ movementDuration >= MOVEMENT_THRESHOLD
             w1 == [wm EXCEPT !.movementTracker =
                                  Put(mt0, imei,
                                      [deviceTracker EXCEPT
                                          !.falseDuration = 0,
                                          !.movementStartTime = movementStartTime,
                                          !.isSaving = IF opening THEN TRUE ELSE @]),
                              !.pendingPoints = Put(w.pendingPoints, imei, pp1)]
         IN
         IF opening THEN [w |-> w1, call |-> "open", points |-> pp1]
         ELSE IF deviceTracker.isSaving THEN [w |-> w1, call |-> "update", points |-> << >>]
         ELSE [w |-> [w1 EXCEPT !.movementTracker[imei].lastMovement = timestamp],
               call |-> "none", points |-> << >>]
    ELSE LET falseDuration == deviceTracker.falseDuration + (timestamp - deviceTracker.lastMovement)
         IN
         IF idleReached(falseDuration, deviceTracker.isSaving)
         THEN [w |-> [w EXCEPT !.movementTracker =
                            Put(mt0, imei,
                                [lastMovement |-> timestamp,
                                 movementStartTime |-> NoTime,
                                 falseDuration |-> 0,
                                 isSaving |-> FALSE]),
                        !.pendingPoints = Put(w.pendingPoints, imei, << >>)],
               call |-> "none", points |-> << >>]
         ELSE [w |-> [w EXCEPT !.movementTracker =
                            Put(mt0, imei,
                                [deviceTracker EXCEPT !.falseDuration = falseDuration,
                                                      !.lastMovement = timestamp])],
               call |-> "none", points |-> << >>]

\* processWalkTracking after the store call it awaited has returned: the
\* effect of the call on the store, the pending points cleared after a
\* successful saveWalkPath, and lastMovement
trackEnd(w, imei, record, call, points, now, outcome) ==
    LET timestamp == record.timestamp
        r == IF call = "open"
             THEN saveWalkPath(w.walks, imei, points, TRUE, points[1].timestamp, NoTime, outcome)
             ELSE updateWalkPath(w.walks, imei, record.latitude, record.longitude,
                                 timestamp, now, outcome)
    IN [w EXCEPT !.walks = r.walks,
                 !.pendingPoints = IF call = "open" /\ r.ok THEN Put(@, imei, << >>) ELSE @,
                 !.movementTracker[imei].lastMovement = timestamp]

\* processWalkTracking(imei, record) running to its end with no other
\* handler in between
processWalkTracking(w, imei, record, now, outcome) ==
    LET b == trackBegin(w, imei, record, now) IN
    IF b.call = "none" THEN b.w
    ELSE trackEnd(b.w, imei, record, b.call, b.points, now, outcome)

\* ------------------------------------------------------------ the session
Event(t, v) == [t |-> t, v |-> v]
Emit(w, s, t, v) == [w EXCEPT !.out[s] = Append(@, Event(t, v))]

\* safeSocketWrite: the bytes reach the wire only if the socket is neither
\* destroyed nor ended; otherwise the write is refused and only logged
safeSocketWrite(w, s, data) ==
    IF w.sockState[s] = "open" /\ ~w.ended[s]
    THEN Emit(w, s, "write", data)
    ELSE Emit(w, s, "refused", data)

\* a chain of processBuffer suspended on `await`; pc names the call:
\* "lookup" (getDeviceInfoByDeviceId), "saveAvl" and "saveJson" (saveDeviceData),
\* "open" and "update" (saveWalkPath and updateWalkPath awaited inside the
\* processWalkTracking of the JSON branch); imei, records and points are the
\* arguments of the call
Chain(pc, imei, totalLength, n, records, points) ==
    [pc |-> pc, imei |-> imei, totalLength |-> totalLength, n |-> n, records |-> records,
     points |-> points]
Suspend(w, s, chain) == [w EXCEPT !.chains[s] = Append(@, chain)]

\* the record built from a JSON number: every field is undefined
jsonRecord ==
    [timestamp |-> Undefined, latitude |-> Undefined, longitude |-> Undefined,
     positionSpeed |-> Undefined]

\* the record of parseTeltonikaData as processWalkTracking reads it: the
\* parser sets `speed`, never `positionSpeed`
trackedRecord(record) ==
    [timestamp |-> record.timestamp, latitude |-> record.latitude,
     longitude |-> record.longitude, positionSpeed |-> Undefined]

\* what a "track" event tells: timestamp and position of the record, the
\* speed and the movement flag the decoder read, whether processWalkTracking
\* takes the record as moving, and the codec of the frame (0 for JSON)
trackEvent(record, tracked, codec) ==
    << record.timestamp, record.latitude, record.longitude, record.speed,
       record.movement, IF isMoving(tracked) THEN 1 ELSE 0, codec >>

\* the filter of lines 145-148 left out: every decoded record is new
isNewRecordUnfiltered(record) == record.timestamp = record.timestamp

\* records.filter(record => recordTime > SERVER_START_TIME)
isNewRecord(record) == record.timestamp > SERVER_START_TIME

\* the loop over newRecords: each record is handed to processWalkTracking
RECURSIVE trackRecords(_, _, _, _, _)
trackRecords(w, s, newRecords, i, now) ==
    IF i > Len(newRecords) THEN w
    ELSE LET record == newRecords[i]
             w1 == processWalkTracking(w, w.deviceImei[s], trackedRecord(record), now, "ok")
             w2 == Emit(w1, s, "track", trackEvent(record, trackedRecord(record), 8))
         IN trackRecords(w2, s, newRecords, i + 1, now)

timestampsOf(records) == [i \in 1..Len(records) |-> records[i].timestamp]

\* the JSON branch of processBuffer calls saveDeviceData(socket.deviceImei, [record])
callSaveJson(w, s, record) ==
    Suspend(Emit(w, s, "save", << record.timestamp >>), s,
            Chain("saveJson", w.deviceImei[s], 0, 0, << record >>, << >>))

\* processBuffer takes the resync branch on this buffer: no IMEI frame, no
\* JSON text, at least 8 bytes and a preamble that is not zero
inResync(buffer) ==
    /\ Len(buffer) >= 8
    /\ ~isImeiPacket(buffer)
    /\ ~(jsonParses(buffer) \/ isJsonObject(buffer))
    /\ readUInt32BE(buffer, 0) # 0

\* the number of bytes the resync branch drops, one per recursive call,
\* until a call does not take that branch again
resyncSkip(buffer) ==
    CHOOSE k \in 1..Len(buffer) :
        /\ ~inResync(Slice(buffer, k))
        /\ \A j \in 1..(k - 1) : inResync(Slice(buffer, j))

\* processBuffer of src/deviceServer.js, from its entry to the first await
\* on a repository call (or to its end)
RECURSIVE processBuffer(_, _, _)
processBuffer(w, s, now) ==
    LET buffer == w.dataBuffer[s] IN
    IF Len(buffer) < 2 THEN w
    ELSE IF isImeiPacket(buffer)
    THEN LET imei == parseImeiPacket(buffer) IN
         Suspend([w EXCEPT !.deviceImei[s] = imei], s, Chain("lookup", imei, 0, 0, << >>, << >>))
    ELSE IF jsonParses(buffer) \/ isJsonObject(buffer)
    THEN LET record == IF isJsonObject(buffer) THEN jsonObject(buffer) ELSE jsonRecord
             b == trackBegin(w, w.deviceImei[s], record, now)
             w2 == Emit(b.w, s, "track",
                        trackEvent([timestamp |-> record.timestamp,
                                    latitude |-> record.latitude,
                                    longitude |-> record.longitude,
                                    speed |-> record.positionSpeed,
                                    movement |-> MvAbsent], record, 0))
         IN IF b.call = "none" THEN callSaveJson(w2, s, record)
            ELSE Suspend(w2, s, Chain(b.call, w.deviceImei[s], 0, 0, << record >>, b.points))
    ELSE IF Len(buffer) < 8 THEN w
    ELSE IF readUInt32BE(buffer, 0) # 0
    THEN LET w1 == [w EXCEPT !.dataBuffer[s] = Slice(buffer, resyncSkip(buffer))] IN
         IF Len(w1.dataBuffer[s]) > 0 THEN processBuffer(w1, s, now) ELSE w1
    ELSE LET dataLength == readUInt32BE(buffer, 4)
             totalLength == 8 + dataLength + 4
         IN
         IF Len(buffer) < totalLength THEN w
         ELSE LET records == parseTeltonikaData(Head0(buffer, totalLength))
                  newRecords == SelectSeq(records, isNewRecord)
              IN
              IF Len(records) > 0 /\ Len(newRecords) > 0
              THEN LET w0 == Emit(w, s, "frame", timestampsOf(records))
                       w1 == trackRecords(w0, s, newRecords, 1, now)
                       w2 == Emit(w1, s, "save", timestampsOf(newRecords))
                   IN Suspend(w2, s, Chain("saveAvl", w.deviceImei[s], totalLength,
                                           Len(records), newRecords, << >>))
              ELSE LET w1 == IF Len(records) > 0
                             THEN safeSocketWrite(Emit(w, s, "frame", timestampsOf(records)),
                                                  s, ackBuffer(Len(records)))
                             ELSE w
                       w2 == [w1 EXCEPT !.dataBuffer[s] = Slice(buffer, totalLength)]
                   IN IF Len(w2.dataBuffer[s]) > 0 THEN processBuffer(w2, s, now) ELSE w2

\* afterLookup with line 90 left out: the bytes that follow the IMEI frame
\* stay in the buffer until the next 'data' event
afterLookupNoResidue(w, s, chain, now) ==
    IF ~getDeviceInfoByDeviceId(chain.imei)
    THEN [w EXCEPT !.ended[s] = TRUE]
    ELSE LET imei == w.deviceImei[s]
             w1 == [w EXCEPT !.activeDevices = Put(@, imei, s),
                             !.movementTracker =
                                 IF imei \in DOMAIN @ THEN @ ELSE Put(@, imei, newTracker(now)),
                             !.pendingPoints =
                                 IF imei \in DOMAIN @ THEN @ ELSE Put(@, imei, << >>)]
             w2 == safeSocketWrite(Emit(w1, s, "register", imei), s, << 1 >>)
             buffer == w2.dataBuffer[s]
         IN
         IF Len(buffer) < 2
         THEN Emit([w2 EXCEPT !.dataBuffer[s] = << >>], s, "caught", << >>)
         ELSE [w2 EXCEPT !.dataBuffer[s] = Slice(buffer, 2 + readUInt16BE(buffer, 0))]

\* processBuffer after getDeviceInfoByDeviceId(chain.imei) has returned
afterLookup(w, s, chain, now) ==
    IF ~getDeviceInfoByDeviceId(chain.imei)
    THEN [w EXCEPT !.ended[s] = TRUE]
    ELSE LET imei == w.deviceImei[s]
             w1 == [w EXCEPT !.activeDevices = Put(@, imei, s),
                             !.movementTracker =
                                 IF imei \in DOMAIN @ THEN @ ELSE Put(@, imei, newTracker(now)),
                             !.pendingPoints =
                                 IF imei \in DOMAIN @ THEN @ ELSE Put(@, imei, << >>)]
             w2 == safeSocketWrite(Emit(w1, s, "register", imei), s, << 1 >>)
             buffer == w2.dataBuffer[s]
         IN
         IF Len(buffer) < 2
         THEN Emit([w2 EXCEPT !.dataBuffer[s] = << >>], s, "caught", << >>)
         ELSE LET w3 == [w2 EXCEPT !.dataBuffer[s] = Slice(buffer, 2 + readUInt16BE(buffer, 0))]
              IN IF Len(w3.dataBuffer[s]) > 0 THEN processBuffer(w3, s, now) ELSE w3

\* history: a saveDeviceData call of socket s has returned; `at` is the
\* number of events the socket had produced by then, `avl` tells the call
\* of the AVL branch from the call of the JSON branch
logSave(w, s, chain, outcome) ==
    [w EXCEPT !.saveLog[s] =
        Append(@, [at |-> Len(w.out[s]),
                   avl |-> chain.pc = "saveAvl",
                   ok |-> outcome = "ok",
                   handed |-> timestampsOf(chain.records),
                   appended |-> saveDeviceData(chain.imei, chain.records, outcome)])]

\* processBuffer after saveDeviceData(newRecords) has returned: the ack,
\* then the frame is sliced off the buffer as it is now
afterSaveAvl(w, s, chain, now, outcome) ==
    LET w0 == logSave(w, s, chain, outcome)
        w1 == safeSocketWrite(w0, s, ackBuffer(chain.n))
        w2 == [w1 EXCEPT !.dataBuffer[s] = Slice(@, chain.totalLength)]
    IN IF Len(w2.dataBuffer[s]) > 0 THEN processBuffer(w2, s, now) ELSE w2

\* processBuffer after saveDeviceData([record]) of the JSON branch
afterSaveJson(w, s, chain, outcome) ==
    [logSave(w, s, chain, outcome) EXCEPT !.dataBuffer[s] = << >>]

\* the JSON branch after the store call of its processWalkTracking returned
afterWalkJson(w, s, chain, now, outcome) ==
    callSaveJson(trackEnd(w, chain.imei, chain.records[1], chain.pc, chain.points,
                          now, outcome),
                 s, chain.records[1])

RemoveAt(seq, i) == SubSeq(seq, 1, i - 1) \o SubSeq(seq, i + 1, Len(seq))

\* clearTimeout(socket.timeoutHandler); clearing a timer that is not
\* pending has no effect
clearTimeout(w, s) == [w EXCEPT !.pendingTimers[s] = @ \ {w.timeoutHandler[s]}]

\* socket.timeoutHandler = setTimeout(..., 60000): a new timer, whose handle
\* replaces the one the socket remembers
setTimeout(w, s) ==
    LET handle == w.timeoutHandler[s] + 1 IN
    [w EXCEPT !.timeoutHandler[s] = handle, !.pendingTimers[s] = @ \cup {handle}]

\* the 'data' handler after its await: when the processBuffer call it waits
\* for has returned (before is the world in which the call ran on, w the
\* world it produced: no chain was suspended), the handler arms a timer
afterProcessBuffer(before, w, s) ==
    IF Len(w.chains[s]) > Len(before.chains[s]) THEN w ELSE setTimeout(w, s)

\* the continuation of chain i of socket s
resumeChain(w, s, i, now, outcome) ==
    LET chain == w.chains[s][i]
        w1 == [w EXCEPT !.chains[s] = RemoveAt(@, i)]
    IN afterProcessBuffer(w1,
          IF chain.pc = "lookup" THEN afterLookup(w1, s, chain, now)
          ELSE IF chain.pc = "saveAvl" THEN afterSaveAvl(w1, s, chain, now, outcome)
          ELSE IF chain.pc = "saveJson" THEN afterSaveJson(w1, s, chain, outcome)
          ELSE afterWalkJson(w1, s, chain, now, outcome),
          s)

\* socket.on('data'): clear the timer, append the chunk, run processBuffer
\* and arm a new timer
socketOnData(w, s, data, now) ==
    LET w1 == [clearTimeout(w, s) EXCEPT !.dataBuffer[s] = @ \o data] IN
    afterProcessBuffer(w1, processBuffer(w1, s, now), s)

\* socket.on('close')
socketOnClose(w, s) ==
    LET imei == w.deviceImei[s] IN
    [clearTimeout(w, s) EXCEPT
        !.activeDevices = IF imei # NoImei /\ imei \in DOMAIN @ THEN Del(@, imei) ELSE @,
        !.sockState[s] = "closed"]

\* socket.on('error')
socketOnError(w, s) ==
    LET imei == w.deviceImei[s] IN
    [w EXCEPT !.ended[s] = TRUE,
              !.activeDevices = IF imei # NoImei /\ imei \in DOMAIN @ THEN Del(@, imei) ELSE @]

\* ------------------------------------------------- what the devices send
ImeiFrame(digits) == U16(Len(digits)) \o digits

\* one AVL record of codec 8 without IO elements (30 bytes)
RecordBytes(ts, lat, lon, speed) ==
    U64(ts) \o << 1 >> \o U32(lon) \o U32(lat) \o U16(0) \o U16(0) \o << 5 >>
    \o U16(speed) \o << 0, 0, 0, 0, 0, 0 >>

RECURSIVE Concat(_)
Concat(seqs) == IF seqs = << >> THEN << >> ELSE Head(seqs) \o Concat(Tail(seqs))

\* a codec 8 frame: preamble, data length, codec, count, records, count, CRC
AvlFrame(recs) ==
    LET body == << 8, Len(recs) >> \o Concat(recs) \o << Len(recs) >> IN
    U32(0) \o U32(Len(body)) \o body \o U32(0)

LoginA == ImeiFrame(ImeiA)
LoginB == ImeiFrame(ImeiB)
LoginU == ImeiFrame(ImeiU)
\* one record later than the server start
Avl1 == AvlFrame(<< RecordBytes(61000, 7, 9, 5) >>)
\* a second frame of two records, the first older than the server start
Avl2 == AvlFrame(<< RecordBytes(500, 7, 9, 0), RecordBytes(121000, 7, 9, 0) >>)
\* a frame of one record older than the server start
AvlOld == AvlFrame(<< RecordBytes(400, 7, 9, 0) >>)

\* a frame of two records, both later than the server start, the first
\* with speed 5 and the second with speed 0
Avl3 == AvlFrame(<< RecordBytes(61000, 7, 9, 5), RecordBytes(121000, 7, 9, 0) >>)
\* the frame Avl1 with codec id 7 in place of 8
AvlBadCodec == [Avl1 EXCEPT ![9] = 7]
\* one AVL record of Codec 8 Extended: the event IO id, the total count,
\* the group counts and the element ids take two bytes each; the record
\* carries IO 240 (movement) with value mv in its 1-byte group
RecordBytes8E(ts, lat, lon, speed, mv) ==
    U64(ts) \o << 1 >> \o U32(lon) \o U32(lat) \o U16(0) \o U16(0) \o << 5 >>
    \o U16(speed) \o U16(240) \o U16(1)
    \o U16(1) \o U16(240) \o << mv >> \o U16(0) \o U16(0) \o U16(0)

\* a Codec 8 Extended frame: codec id 0x8E, record counts of two bytes
Avl8EFrame(recs) ==
    LET body == << 142 >> \o U16(Len(recs)) \o Concat(recs) \o U16(Len(recs)) IN
    U32(0) \o U32(Len(body)) \o body \o U32(0)

\* one Codec 8 Extended record later than the server start, movement set
Avl8E == Avl8EFrame(<< RecordBytes8E(61000, 7, 9, 5, 1) >>)
\* a run of bytes that are neither a preamble nor JSON nor an IMEI frame
GarbageBytes(n) == [i \in 1..n |-> 255]
Garbage == GarbageBytes(MaxGarbage)
\* the JSON payloads
Json1 == JsonText([timestamp |-> 61000, latitude |-> 7, longitude |-> 9, positionSpeed |-> 5])
Json2 == JsonText([timestamp |-> 121000, latitude |-> 7, longitude |-> 9, positionSpeed |-> 5])
Json3 == JsonText([timestamp |-> 181000, latitude |-> 7, longitude |-> 9, positionSpeed |-> 0])

\* the chunk sequences a peer may send on one connection
Scripts ==
    { << LoginA, Avl1 >>,
      << LoginA \o Avl1 >>,
      << LoginA, Avl1, Avl2 >>,
      << LoginA, LoginB >>,
      << LoginA, LoginU >>,
      << LoginU, Avl1 >>,
      << Avl1 >>,
      << LoginA, AvlOld >> }

\* the chunk sequences of the connection whose repository may fail
SessionScripts ==
    { << LoginA, Avl3 >>,
      << LoginA, Avl1, Avl2 >>,
      << LoginA, AvlBadCodec, Avl1 >>,
      << LoginA, Avl8E >>,
      << LoginA, Json1, Json2, Json3 >>,
      << Json1, LoginA, Json2 >> }

\* the byte streams whose every cutting is delivered
FramingStreams == { LoginA \o Avl1, LoginA \o Avl2 \o Avl1, LoginA \o AvlOld \o Avl1 }

\* the ways to cut a stream into at most k + 1 non-empty consecutive chunks
RECURSIVE Cuttings(_, _)
Cuttings(stream, k) ==
    IF Len(stream) = 0 THEN { << >> }
    ELSE IF k = 0 THEN { << stream >> }
    ELSE { << stream >> } \cup
         UNION { { << SubSeq(stream, 1, n) >> \o rest :
                     rest \in Cuttings(SubSeq(stream, n + 1, Len(stream)), k - 1) } :
                 n \in 1..(Len(stream) - 1) }

\* ----------------------------------------------------------- the actions
\* no connection accepted, nothing tracked, nothing stored
ServerIdle ==
    /\ sockState = [s \in Sockets |-> "free"]
    /\ ended = [s \in Sockets |-> FALSE]
    /\ dataBuffer = [s \in Sockets |-> << >>]
    /\ deviceImei = [s \in Sockets |-> NoImei]
    /\ chains = [s \in Sockets |-> << >>]
    /\ inflight = [s \in Sockets |-> << >>]
    /\ out = [s \in Sockets |-> << >>]
    /\ received = [s \in Sockets |-> << >>]
    /\ activeDevices = EmptyMap
    /\ movementTracker = EmptyMap
    /\ pendingPoints = EmptyMap
    /\ walks = << >>
    /\ lastMoving = EmptyMap
    /\ saveLog = [s \in Sockets |-> << >>]
    /\ nrecords = 0
    /\ timeoutHandler = [s \in Sockets |-> IF sockState[s] = "open" THEN 1 ELSE NoTimer]
    /\ pendingTimers = [s \in Sockets |-> IF sockState[s] = "open" THEN {1} ELSE {}]

Init == ServerIdle /\ StoreIdle /\ GateIdle

\* net.createServer callback: a connection is accepted
Connect(s) ==
    /\ sockState[s] = "free"
    /\ \A t \in Sockets : t < s => sockState[t] # "free"
    /\ \E script \in Scripts : inflight' = [inflight EXCEPT ![s] = script]
    /\ sockState' = [sockState EXCEPT ![s] = "open"]
    /\ timeoutHandler' = [timeoutHandler EXCEPT ![s] = 1]
    /\ pendingTimers' = [pendingTimers EXCEPT ![s] = {1}]
    /\ UNCHANGED << ended, dataBuffer, deviceImei, chains, out, received,
                    activeDevices, movementTracker, pendingPoints, walks,
                    lastMoving, saveLog, nrecords >>
    /\ UNCHANGED << storeVars, gateVars >>

\* a 'data' event delivers the next chunk
Data(s) ==
    /\ sockState[s] = "open"
    /\ inflight[s] # << >>
    /\ Len(chains[s]) < MaxChains
    /\ \E now \in WallClock : SetWorld(socketOnData(World, s, Head(inflight[s]), now))
    /\ inflight' = [inflight EXCEPT ![s] = Tail(@)]
    /\ received' = [received EXCEPT ![s] = @ \o Head(inflight[s])]
    /\ UNCHANGED nrecords

\* the repository call a chain waits for returns
Resume(s) ==
    /\ \E i \in 1..Len(chains[s]) : \E now \in WallClock :
          SetWorld(resumeChain(World, s, i, now, "ok"))
    /\ UNCHANGED << inflight, received, nrecords >>

\* the saveDeviceData call a chain waits for returns after a rejected create
ResumeFail(s) ==
    /\ \E i \in 1..Len(chains[s]) : \E now \in WallClock :
          /\ chains[s][i].pc # "lookup"
          /\ SetWorld(resumeChain(World, s, i, now, "fail"))
    /\ UNCHANGED << inflight, received, nrecords >>

\* the 'close' event of an open socket
Close(s) ==
    /\ sockState[s] = "open"
    /\ SetWorld(socketOnClose(World, s))
    /\ inflight' = [inflight EXCEPT ![s] = << >>]
    /\ UNCHANGED << received, nrecords >>

\* an 'error' event; the socket is destroyed and 'close' is emitted right
\* after it, before any other event of the process
Error(s) ==
    /\ sockState[s] = "open"
    /\ SetWorld(socketOnClose(socketOnError(World, s), s))
    /\ inflight' = [inflight EXCEPT ![s] = << >>]
    /\ UNCHANGED << received, nrecords >>

Next == \E s \in Sockets : Connect(s) \/ Data(s) \/ Resume(s) \/ Close(s) \/ Error(s)

Spec == Init /\ [][Next]_vars

\* ---- one connection with chunks arriving at any time and a repository
\* whose saves may fail
SessionInit ==
    /\ sockState = [s \in Sockets |-> IF s = 1 THEN "open" ELSE "free"]
    /\ ended = [s \in Sockets |-> FALSE]
    /\ dataBuffer = [s \in Sockets |-> << >>]
    /\ deviceImei = [s \in Sockets |-> NoImei]
    /\ chains = [s \in Sockets |-> << >>]
    /\ \E script \in SessionScripts :
          inflight = [s \in Sockets |-> IF s = 1 THEN script ELSE << >>]
    /\ out = [s \in Sockets |-> << >>]
    /\ received = [s \in Sockets |-> << >>]
    /\ activeDevices = EmptyMap
    /\ movementTracker = EmptyMap
    /\ pendingPoints = EmptyMap
    /\ walks = << >>
    /\ lastMoving = EmptyMap
    /\ saveLog = [s \in Sockets |-> << >>]
    /\ nrecords = 0
    /\ timeoutHandler = [s \in Sockets |-> IF sockState[s] = "open" THEN 1 ELSE NoTimer]
    /\ pendingTimers = [s \in Sockets |-> IF sockState[s] = "open" THEN {1} ELSE {}]
    /\ StoreIdle
    /\ GateIdle

SessionNext == Data(1) \/ Resume(1) \/ ResumeFail(1) \/ Close(1) \/ Error(1)

SessionSpec == SessionInit /\ [][SessionNext]_vars

\* ---- one connection, every chunk fully processed before the next arrives
FramingInit ==
    /\ sockState = [s \in Sockets |-> IF s = 1 THEN "open" ELSE "free"]
    /\ ended = [s \in Sockets |-> FALSE]
    /\ dataBuffer = [s \in Sockets |-> << >>]
    /\ deviceImei = [s \in Sockets |-> NoImei]
    /\ chains = [s \in Sockets |-> << >>]
    /\ \E stream \in FramingStreams : \E cut \in Cuttings(stream, MaxCuts) :
          inflight = [s \in Sockets |-> IF s = 1 THEN cut ELSE << >>]
    /\ out = [s \in Sockets |-> << >>]
    /\ received = [s \in Sockets |-> << >>]
    /\ activeDevices = EmptyMap
    /\ movementTracker = EmptyMap
    /\ pendingPoints = EmptyMap
    /\ walks = << >>
    /\ lastMoving = EmptyMap
    /\ saveLog = [s \in Sockets |-> << >>]
    /\ nrecords = 0
    /\ timeoutHandler = [s \in Sockets |-> IF sockState[s] = "open" THEN 1 ELSE NoTimer]
    /\ pendingTimers = [s \in Sockets |-> IF sockState[s] = "open" THEN {1} ELSE {}]
    /\ StoreIdle
    /\ GateIdle

\* a 'data' event that finds no chain of the socket in flight
DataSeq(s) ==
    /\ chains[s] = << >>
    /\ Data(s)

FramingNext == DataSeq(1) \/ Resume(1)

FramingSpec == FramingInit /\ [][FramingNext]_vars

\* ---- one connection that sends, after its login, a run of bytes that are
\* no frame start, followed by a frame; with the frame in the same chunk as
\* the run or in a chunk of its own
ResyncLengths == (MaxGarbage - MaxResyncSpan)..MaxGarbage

ResyncScripts ==
    UNION { { << LoginA, GarbageBytes(n) \o Avl1 >>,
              << LoginA, GarbageBytes(n), Avl1 >> } : n \in ResyncLengths }

ResyncInit ==
    /\ sockState = [s \in Sockets |-> IF s = 1 THEN "open" ELSE "free"]
    /\ ended = [s \in Sockets |-> FALSE]
    /\ dataBuffer = [s \in Sockets |-> << >>]
    /\ deviceImei = [s \in Sockets |-> NoImei]
    /\ chains = [s \in Sockets |-> << >>]
    /\ \E script \in ResyncScripts :
          inflight = [s \in Sockets |-> IF s = 1 THEN script ELSE << >>]
    /\ out = [s \in Sockets |-> << >>]
    /\ received = [s \in Sockets |-> << >>]
    /\ activeDevices = EmptyMap
    /\ movementTracker = EmptyMap
    /\ pendingPoints = EmptyMap
    /\ walks = << >>
    /\ lastMoving = EmptyMap
    /\ saveLog = [s \in Sockets |-> << >>]
    /\ nrecords = 0
    /\ timeoutHandler = [s \in Sockets |-> IF sockState[s] = "open" THEN 1 ELSE NoTimer]
    /\ pendingTimers = [s \in Sockets |-> IF sockState[s] = "open" THEN {1} ELSE {}]
    /\ StoreIdle
    /\ GateIdle

ResyncNext == DataSeq(1) \/ Resume(1)

ResyncSpec == ResyncInit /\ [][ResyncNext]_vars

\* ---- one connection that sends, after its login, the header of a frame
\* that declares 2 MiB of data and then goes on sending: a first chunk of
\* 1 to MaxFirstChunk blocks and FullChunks chunks of ChunkSize bytes, the
\* largest chunk one 'data' event delivers.  The states of this
\* specification hold their byte strings run-length packed, as sequences
\* of runs; the handlers work on the unpacked bytes.
Run(byte, n) == [byte |-> byte, n |-> n]

\* the packed form of p \o q
Join(p, q) ==
    IF p = << >> THEN q
    ELSE IF q = << >> THEN p
    ELSE IF p[Len(p)].byte = q[1].byte
    THEN SubSeq(p, 1, Len(p) - 1) \o << Run(q[1].byte, p[Len(p)].n + q[1].n) >> \o Tail(q)
    ELSE p \o q

RECURSIVE Pack(_)
Pack(bytes) ==
    IF bytes = << >> THEN << >>
    ELSE IF \A i \in 1..Len(bytes) : bytes[i] = bytes[1] THEN << Run(bytes[1], Len(bytes)) >>
    ELSE LET h == Len(bytes) \div 2 IN
         Join(Pack(SubSeq(bytes, 1, h)), Pack(SubSeq(bytes, h + 1, Len(bytes))))

RECURSIVE Unpack(_)
Unpack(p) ==
    IF p = << >> THEN << >> ELSE [i \in 1..p[1].n |-> p[1].byte] \o Unpack(Tail(p))

\* buffer.length of a packed buffer
RECURSIVE PackedLen(_)
PackedLen(p) == IF p = << >> THEN 0 ELSE p[1].n + PackedLen(Tail(p))

Unpacked == [World EXCEPT !.dataBuffer = [s \in Sockets |-> Unpack(@[s])]]

SetPacked(w) == SetWorld([w EXCEPT !.dataBuffer = [s \in Sockets |-> Pack(@[s])]])

\* the header is the preamble and the data length 00 20 00 00
OverflowScripts ==
    { << Pack(LoginA), Join(Pack(<< 0, 0, 0, 0, 0, 32, 0, 0 >>), << Run(0, k * ChunkBlock) >>) >>
          \o [i \in 1..FullChunks |-> << Run(0, ChunkSize) >>] : k \in 1..MaxFirstChunk }

OverflowInit ==
    /\ sockState = [s \in Sockets |-> IF s = 1 THEN "open" ELSE "free"]
    /\ ended = [s \in Sockets |-> FALSE]
    /\ dataBuffer = [s \in Sockets |-> << >>]
    /\ deviceImei = [s \in Sockets |-> NoImei]
    /\ chains = [s \in Sockets |-> << >>]
    /\ \E script \in OverflowScripts :
          inflight = [s \in Sockets |-> IF s = 1 THEN script ELSE << >>]
    /\ out = [s \in Sockets |-> << >>]
    /\ received = [s \in Sockets |-> << >>]
    /\ activeDevices = EmptyMap
    /\ movementTracker = EmptyMap
    /\ pendingPoints = EmptyMap
    /\ walks = << >>
    /\ lastMoving = EmptyMap
    /\ saveLog = [s \in Sockets |-> << >>]
    /\ nrecords = 0
    /\ timeoutHandler = [s \in Sockets |-> IF sockState[s] = "open" THEN 1 ELSE NoTimer]
    /\ pendingTimers = [s \in Sockets |-> IF sockState[s] = "open" THEN {1} ELSE {}]
    /\ StoreIdle
    /\ GateIdle

\* a 'data' event that finds no chain of the socket in flight
PackedData(s) ==
    /\ sockState[s] = "open"
    /\ inflight[s] # << >>
    /\ chains[s] = << >>
    /\ \E now \in WallClock :
          SetPacked(socketOnData(Unpacked, s, Unpack(Head(inflight[s])), now))
    /\ inflight' = [inflight EXCEPT ![s] = Tail(@)]
    /\ received' = [received EXCEPT ![s] = Join(@, Head(inflight[s]))]
    /\ UNCHANGED nrecords

\* the repository call a chain waits for returns
PackedResume(s) ==
    /\ \E i \in 1..Len(chains[s]) : \E now \in WallClock :
          SetPacked(resumeChain(Unpacked, s, i, now, "ok"))
    /\ UNCHANGED << inflight, received, nrecords >>

OverflowNext == PackedData(1) \/ PackedResume(1)

OverflowSpec == OverflowInit /\ [][OverflowNext]_vars

\* the state after the whole stream was delivered to a fresh connection in
\* one 'data' event and every chain it started has finished
RECURSIVE runToEnd(_, _, _)
runToEnd(w, s, now) ==
    IF w.chains[s] = << >> THEN w ELSE runToEnd(resumeChain(w, s, 1, now, "ok"), s, now)

freshWorld ==
    [sockState |-> [s \in Sockets |-> IF s = 1 THEN "open" ELSE "free"],
     ended |-> [s \in Sockets |-> FALSE],
     dataBuffer |-> [s \in Sockets |-> << >>],
     deviceImei |-> [s \in Sockets |-> NoImei],
     chains |-> [s \in Sockets |-> << >>],
     out |-> [s \in Sockets |-> << >>],
     activeDevices |-> EmptyMap,
     movementTracker |-> EmptyMap,
     pendingPoints |-> EmptyMap,
     walks |-> << >>,
     lastMoving |-> EmptyMap,
     saveLog |-> [s \in Sockets |-> << >>]]

oneChunk(stream) ==
    runToEnd(socketOnData(freshWorld, 1, stream, SERVER_START_TIME), 1, SERVER_START_TIME)

\* ---- processWalkTracking called with records of any content and order
TrackDevices == KnownDevices

TrackRecords ==
    [timestamp : { k * 60000 : k \in 0..MaxTick },
     latitude : { 0, 7 },
     longitude : { 0, 9 },
     positionSpeed : { 0, 5 }]

Track(d) ==
    /\ nrecords < MaxRecords
    /\ \E record \in TrackRecords : \E now \in WallClock : \E outcome \in StoreOutcomes :
          SetWorld(processWalkTracking(World, d, record, now, outcome))
    /\ nrecords' = nrecords + 1
    /\ UNCHANGED << inflight, received >>

TrackerNext == \E d \in TrackDevices : Track(d)

TrackerSpec == Init /\ [][TrackerNext]_vars

\* ---- device A on its way along a meridian: every record is a moving
\* position, 0.4 m (36 units of 1e-7 degree) or a multiple of it from the
\* others
WalkRecords ==
    [timestamp : { k * 60000 : k \in 1..MaxTick },
     latitude : { 7 + 36 * k : k \in 0..MaxSteps },
     longitude : { 9 },
     positionSpeed : { 5 }]

Walk(d) ==
    /\ nrecords < MaxRecords
    /\ \E record \in WalkRecords : \E now \in WallClock : \E outcome \in StoreOutcomes :
          SetWorld(processWalkTracking(World, d, record, now, outcome))
    /\ nrecords' = nrecords + 1
    /\ UNCHANGED << inflight, received >>

DistanceNext == Walk(ImeiA)

DistanceSpec == Init /\ [][DistanceNext]_vars

\* ------------------------------------------- the server of src/utils.js
\* the value 'unknown' that replaces the deviceId of a device the store
\* does not know
UnknownId == << 117, 110, 107, 110, 111, 119, 110 >>

\* the closure variables of one connection callback, with the history of
\* the connection: received (the bytes of all 'data' events), buffered (the
\* bytes that were appended to dataBuffer) and log (writes, saveDeviceData
\* calls and rate-limited frames, in order)
newConn(script) ==
    [state |-> "open", dataBuffer |-> << >>, deviceId |-> NoImei,
     isProcessing |-> FALSE, isImeiProcessed |-> FALSE, pending |-> << >>,
     inflight |-> script, received |-> << >>, buffered |-> << >>, log |-> << >>]

Gate == [conn |-> conn, registry |-> registry, requestCounts |-> requestCounts]

SetGate(g) ==
    /\ conn' = g.conn
    /\ registry' = g.registry
    /\ requestCounts' = g.requestCounts
    /\ UNCHANGED << serverVars, storeVars >>

Note(g, c, t, v) == [g EXCEPT !.conn[c].log = Append(@, Event(t, v))]

\* socket.write of the utils.js server: unguarded; the bytes reach the wire
\* only while the socket is open
socketWrite(g, c, data) ==
    IF g.conn[c].state = "open" THEN Note(g, c, "write", data) ELSE g

\* isRateLimited: [limited, requestCounts]
isRateLimited(counts, deviceId, now) ==
    LET deviceRequests == IF deviceId \in DOMAIN counts THEN counts[deviceId] ELSE << >>
        recentRequests == SelectSeq(deviceRequests, LAMBDA time : now - time < requestWindowMs)
    IN IF Len(recentRequests) >= maxRequestsPerMinute
       THEN [limited |-> TRUE, requestCounts |-> Put(counts, deviceId, recentRequests)]
       ELSE [limited |-> FALSE,
             requestCounts |-> Put(counts, deviceId, Append(recentRequests, now))]

\* processBuffer of the utils.js server, from its entry to its first await
\* on a repository call (or to its end)
RECURSIVE gateProcessBuffer(_, _, _)
gateProcessBuffer(g, c, now) ==
    LET k == g.conn[c]
        buffer == k.dataBuffer
    IN
    IF Len(buffer) < 2 THEN g
    ELSE IF ~k.isImeiProcessed /\ isImeiPacket(buffer)
    THEN [g EXCEPT !.conn[c].deviceId = parseImeiPacket(buffer),
                   !.conn[c].pending = [pc |-> "lookup", n |-> 0]]
    ELSE IF Len(buffer) < 8 THEN g
    ELSE IF readUInt32BE(buffer, 0) # 0
    THEN gateProcessBuffer([g EXCEPT !.conn[c].dataBuffer = Slice(buffer, 1)], c, now)
    ELSE LET totalPacketSize == 8 + readUInt32BE(buffer, 4) + 4
             rl == IF k.deviceId # NoImei
                   THEN isRateLimited(g.requestCounts, k.deviceId, now)
                   ELSE [limited |-> FALSE, requestCounts |-> g.requestCounts]
             g1 == [g EXCEPT !.requestCounts = rl.requestCounts]
         IN
         IF rl.limited
         THEN Note([g1 EXCEPT !.conn[c].dataBuffer = Slice(buffer, totalPacketSize)],
                   c, "limited", << >>)
         ELSE LET records == parseTeltonikaData(buffer) IN
              IF Len(records) > 0
              THEN [Note(g1, c, "save", timestampsOf(records))
                       EXCEPT !.conn[c].pending = [pc |-> "save", n |-> Len(records)]]
              ELSE LET g2 == [g1 EXCEPT !.conn[c].dataBuffer = Slice(buffer, totalPacketSize)]
                   IN IF Len(g2.conn[c].dataBuffer) > 0 THEN gateProcessBuffer(g2, c, now) ELSE g2

\* the 'data' handler returns once its processBuffer has: isProcessing = false
dataDone(g, c) ==
    IF g.conn[c].pending = << >> THEN [g EXCEPT !.conn[c].isProcessing = FALSE] ELSE g

\* socket.on('data') of the utils.js server
gateOnData(g, c, data, now) ==
    LET g0 == [g EXCEPT !.conn[c].received = @ \o data] IN
    IF g0.conn[c].isProcessing THEN g0
    ELSE dataDone(gateProcessBuffer([g0 EXCEPT !.conn[c].isProcessing = TRUE,
                                               !.conn[c].dataBuffer = @ \o data,
                                               !.conn[c].buffered = @ \o data], c, now), c)

\* processBuffer after getDeviceInfoByDeviceId has returned
gateAfterLookup(g, c, now) ==
    LET deviceId == g.conn[c].deviceId
        g1 == IF getDeviceInfoByDeviceId(deviceId)
              THEN [g EXCEPT !.registry = Put(@, deviceId, c)]
              ELSE [g EXCEPT !.conn[c].deviceId = UnknownId]
        g2 == socketWrite(g1, c, << 1 >>)
        buffer == g2.conn[c].dataBuffer
        g3 == [g2 EXCEPT !.conn[c].dataBuffer = Slice(buffer, 2 + readUInt16BE(buffer, 0)),
                         !.conn[c].isImeiProcessed = TRUE]
    IN IF Len(g3.conn[c].dataBuffer) > 0 THEN gateProcessBuffer(g3, c, now) ELSE g3

\* processBuffer after saveDeviceData has returned: the ack of one byte
gateAfterSave(g, c, n, now) ==
    LET g1 == socketWrite(g, c, << n >>)
        buffer == g1.conn[c].dataBuffer
        g2 == [g1 EXCEPT !.conn[c].dataBuffer = Slice(buffer, 8 + readUInt32BE(buffer, 4) + 4)]
    IN IF Len(g2.conn[c].dataBuffer) > 0 THEN gateProcessBuffer(g2, c, now) ELSE g2

gateResume(g, c, now) ==
    LET p == g.conn[c].pending
        g1 == [g EXCEPT !.conn[c].pending = << >>]
    IN dataDone(IF p.pc = "lookup" THEN gateAfterLookup(g1, c, now)
                ELSE gateAfterSave(g1, c, p.n, now), c)

\* socket.on('close') of the utils.js server
gateOnClose(g, c) ==
    LET deviceId == g.conn[c].deviceId
        g1 == [g EXCEPT !.conn[c].state = "closed"]
    IN IF deviceId = NoImei THEN g1
       ELSE [g1 EXCEPT !.registry = IF deviceId \in DOMAIN @ THEN Del(@, deviceId) ELSE @,
                       !.requestCounts = IF deviceId \in DOMAIN @ THEN Del(@, deviceId) ELSE @]

\* the connection callback: the next peer connects
GateConnect ==
    /\ peers # << >>
    /\ LET c == Cardinality(DOMAIN conn) + 1 IN
       SetGate([Gate EXCEPT !.conn =
                   Put(@, c, IF Cardinality(DOMAIN registry) >= maxConnections
                             THEN [newConn(Head(peers)) EXCEPT !.state = "ended"]
                             ELSE newConn(Head(peers)))])
    /\ peers' = Tail(peers)
    /\ UNCHANGED clock

\* a 'data' event delivers the next chunk of connection c
GateData(c) ==
    /\ conn[c].state = "open"
    /\ conn[c].inflight # << >>
    /\ SetGate(gateOnData([Gate EXCEPT !.conn[c].inflight = Tail(@)], c,
                          Head(conn[c].inflight), clock))
    /\ UNCHANGED << clock, peers >>

\* the repository call connection c waits for returns
GateResume(c) ==
    /\ conn[c].pending # << >>
    /\ SetGate(gateResume(Gate, c, clock))
    /\ UNCHANGED << clock, peers >>

\* the peer closes connection c after it has sent what it had to send
GateClose(c) ==
    /\ conn[c].state = "open"
    /\ conn[c].inflight = << >>
    /\ conn[c].received # << >>
    /\ SetGate(gateOnClose(Gate, c))
    /\ UNCHANGED << clock, peers >>

\* a request window goes by
GateTick ==
    /\ clock < MaxGateTicks * requestWindowMs
    /\ clock' = clock + requestWindowMs
    /\ UNCHANGED << conn, registry, requestCounts, peers, serverVars, storeVars >>

\* what the peers of the utils.js server do: one device sends its login and
\* maxRequestsPerMinute + 1 frames in one chunk; maxConnections + 1 peers connect and send
\* nothing; one or two peers send a login and frames in several chunks
GatePlans ==
    { << << LoginA \o Concat([i \in 1..(maxRequestsPerMinute + 1) |-> Avl1]) >> >>,
      [i \in 1..(maxConnections + 1) |-> << >>],
      << << LoginA, Avl1, Avl2 >> >>,
      << << LoginA \o Avl1, Avl2 >> >>,
      << << LoginU, Avl1 >> >>,
      << << LoginA, Avl1 >>, << LoginA, Avl2 >> >> }

GateInit ==
    /\ ServerIdle
    /\ StoreIdle
    /\ conn = EmptyMap
    /\ registry = EmptyMap
    /\ requestCounts = EmptyMap
    /\ clock = 0
    /\ peers \in GatePlans

GateNext ==
    \/ GateConnect
    \/ GateTick
    \/ \E c \in DOMAIN conn : GateData(c)
    \/ \E c \in DOMAIN conn : GateResume(c)
    \/ \E c \in DOMAIN conn : GateClose(c)

GateSpec == GateInit /\ [][GateNext]_vars

\* ------------------------------------------- the store connection
\* connectToDatabase and handleConnectionError of src/database.js, with
\* initializeServers of src/index.js as the first caller
Store ==
    [isConnected |-> isConnected, connectionRetries |-> connectionRetries,
     connecting |-> connecting, listeners |-> listeners, procState |-> procState,
     everConnected |-> everConnected, call |-> updateCall]

SetStoreVars(st) ==
    /\ isConnected' = st.isConnected
    /\ connectionRetries' = st.connectionRetries
    /\ connecting' = st.connecting
    /\ listeners' = st.listeners
    /\ procState' = st.procState
    /\ everConnected' = st.everConnected
    /\ updateCall' = st.call

SetStore(st) ==
    /\ SetStoreVars(st)
    /\ UNCHANGED << serverVars, gateVars >>

\* handleConnectionError: another connectToDatabase is scheduled, or the
\* process exits; after process.exit nothing runs
handleConnectionError(st) ==
    IF st.procState = "exited" THEN st
    ELSE IF st.connectionRetries < maxRetries
    THEN [st EXCEPT !.connectionRetries = @ + 1, !.connecting = @ + 1]
    ELSE [st EXCEPT !.procState = "exited"]

\* the 'error' or 'disconnected' handler of each of the n registered sets
RECURSIVE connectionLost(_, _)
connectionLost(st, n) ==
    IF n = 0 THEN st
    ELSE connectionLost(handleConnectionError([st EXCEPT !.isConnected = FALSE]), n - 1)

\* the await of initializeServers returns whatever connectToDatabase met
started(st) == IF st.procState = "starting" THEN [st EXCEPT !.procState = "running"] ELSE st

\* mongoose.connect of a connectToDatabase call succeeds; the call
\* registers one more set of handlers on mongoose.connection
ConnectOk ==
    /\ procState # "exited"
    /\ connecting > 0
    /\ listeners < MaxListeners
    /\ SetStore(started([Store EXCEPT !.connecting = @ - 1, !.isConnected = TRUE,
                                      !.connectionRetries = 0, !.listeners = @ + 1,
                                      !.everConnected = TRUE]))

\* mongoose.connect of a connectToDatabase call throws
ConnectFail ==
    /\ procState # "exited"
    /\ connecting > 0
    /\ SetStore(started(handleConnectionError([Store EXCEPT !.connecting = @ - 1])))

\* mongoose.connection emits 'error'
OnError ==
    /\ procState # "exited"
    /\ listeners > 0
    /\ connecting + listeners <= MaxConnecting
    /\ SetStore(connectionLost(Store, listeners))

\* mongoose.connection emits 'disconnected'
OnDisconnected ==
    /\ procState # "exited"
    /\ listeners > 0
    /\ connecting + listeners <= MaxConnecting
    /\ isConnected
    /\ SetStore(connectionLost(Store, listeners))

\* mongoose.connection emits 'reconnected'
OnReconnected ==
    /\ procState # "exited"
    /\ listeners > 0
    /\ ~isConnected
    /\ SetStore([Store EXCEPT !.isConnected = TRUE, !.connectionRetries = 0])

\* initializeServers has called connectToDatabase
StoreInit ==
    /\ ServerIdle
    /\ GateIdle
    /\ isConnected = FALSE
    /\ connectionRetries = 0
    /\ connecting = 1
    /\ listeners = 0
    /\ procState = "starting"
    /\ everConnected = FALSE
    /\ updateCall = NoCall

StoreNext == ConnectOk \/ ConnectFail \/ OnError \/ OnDisconnected \/ OnReconnected

StoreSpec == StoreInit /\ [][StoreNext]_vars

\* ------------------------------ updateWalkPath of src/database.js
\* what one pass through the try block can meet: every call resolves; the
\* lookup of the device rejects (getDeviceInfoByDeviceId catches it and
\* returns null); WalkPath.findOne or save() rejects with an error whose
\* code is ECONNRESET, ETIMEDOUT or anything else
CallOutcomes == { "ok", "lookupThrows", "ECONNRESET", "ETIMEDOUT", "other" }

CallDevices == { ImeiA, UnknownId }

CallPoints ==
    [timestamp : { 60000, 120000 }, latitude : { 7 }, longitude : { 9 }]

\* every error is taken for a connection error
isTransientAny(code) == code = code

\* error.code === 'ECONNRESET' || error.code === 'ETIMEDOUT'
isTransient(code) == code \in { "ECONNRESET", "ETIMEDOUT" }

\* ensureConnection: when the flag is down, connectToDatabase is awaited;
\* its mongoose.connect succeeds (connected) or throws
ensureConnection(st, connected) ==
    IF st.isConnected THEN st
    ELSE IF connected
    THEN [st EXCEPT !.isConnected = TRUE, !.connectionRetries = 0,
                    !.listeners = @ + 1, !.everConnected = TRUE]
    ELSE handleConnectionError(st)

\* return of the call
returns(c, result) == [c EXCEPT !.pc = "returned", !.result = result]

\* the catch block of the loop
catchError(c, code) ==
    LET c1 == [c EXCEPT !.retries = @ + 1, !.errors = Append(@, code)] IN
    IF isTransient(code) /\ c1.retries < maxRetries
    THEN [c1 EXCEPT !.pc = "delay"]
    ELSE returns(c1, Null)

\* one pass through the try block, from ensureConnection to the return or
\* the catch: the store connection, the call and the walks after it.  With
\* bufferCommands: false the lookup on a connection that is down rejects.
tryUpdate(st, wk, connected, outcome) ==
    LET st1 == ensureConnection(st, connected)
        c == [st1.call EXCEPT !.attempts = @ + 1]
        active == findActiveWalk(wk, c.deviceId)
    IN
    IF st1.procState = "exited" THEN [store |-> st1, walks |-> wk]
    ELSE IF ~st1.isConnected \/ outcome = "lookupThrows" \/ ~getDeviceInfoByDeviceId(c.deviceId)
    THEN [store |-> [st1 EXCEPT !.call = returns(c, Null)], walks |-> wk]
    ELSE IF outcome # "ok"
    THEN [store |-> [st1 EXCEPT !.call = catchError(c, outcome)], walks |-> wk]
    ELSE IF active = 0
    THEN [store |-> [st1 EXCEPT !.call = returns(c, Len(wk) + 1)],
          walks |-> Append(wk,
              [device |-> c.deviceId,
               isActive |-> TRUE,
               startTime |-> c.point.timestamp,
               endTime |-> NoTime,
               coordinates |-> << c.point >>,
               distance |-> 0])]
    ELSE [store |-> [st1 EXCEPT !.call = returns(c, active)],
          walks |-> [wk EXCEPT ![active].coordinates = Append(@, c.point),
                               ![active].distance =
                                   round(pathLength(Append(wk[active].coordinates, c.point)))]]

\* processWalkTracking of src/database.js calls updateWalkPath for a device
\* that is being saved
CallUpdateWalkPath ==
    /\ procState # "exited"
    /\ updateCall.pc = "idle"
    /\ updateCall.calls < MaxCalls
    /\ \E d \in CallDevices : \E point \in CallPoints :
          SetStore([Store EXCEPT !.call =
              [NoCall EXCEPT !.pc = "attempt", !.deviceId = d, !.point = point,
                             !.calls = updateCall.calls + 1, !.log = updateCall.log]])

\* the loop body runs
UpdateAttempt ==
    /\ procState # "exited"
    /\ updateCall.pc = "attempt"
    /\ \E connected \in BOOLEAN : \E outcome \in CallOutcomes :
          LET r == tryUpdate(Store, walks, connected, outcome) IN
          /\ r.store.listeners <= MaxListeners
          /\ SetStoreVars(r.store)
          /\ walks' = r.walks
    /\ UNCHANGED << sockState, ended, dataBuffer, deviceImei, chains, inflight, out,
                    activeDevices, movementTracker, pendingPoints, received,
                    lastMoving, saveLog, nrecords, timeoutHandler, pendingTimers >>
    /\ UNCHANGED gateVars

\* the retryDelay timer of the catch block fires and the loop condition
\* is evaluated again
UpdateDelay ==
    /\ procState # "exited"
    /\ updateCall.pc = "delay"
    /\ SetStore([Store EXCEPT !.call =
           IF updateCall.retries < maxRetries THEN [updateCall EXCEPT !.pc = "attempt"]
           ELSE returns(updateCall, Null)])

\* the caller logs the result and goes on
CallerContinues ==
    /\ procState # "exited"
    /\ updateCall.pc = "returned"
    /\ SetStore([Store EXCEPT !.call =
           [updateCall EXCEPT !.pc = "idle",
                        !.log = Append(@, IF updateCall.result = Null THEN "failed" ELSE "updated")]])

RetryNext ==
    \/ CallUpdateWalkPath
    \/ UpdateAttempt
    \/ UpdateDelay
    \/ CallerContinues
    \/ ConnectOk
    \/ ConnectFail
    \/ OnDisconnected
    \/ OnReconnected

\* the loop body and the timer of the delay run when they can
RetrySpec ==
    /\ Init
    /\ [][RetryNext]_vars
    /\ WF_vars(UpdateAttempt)
    /\ WF_vars(UpdateDelay)

\* =================================================================== claims
\* the events of kind t in a socket's output
EventsOf(s, t) == SelectSeq(out[s], LAMBDA e : e.t = t)
IsAckWrite(e) == e.t = "write" /\ Len(e.v) = 4
IsDispatch(e) == e.t \in { "track", "save" }
Registered(s) == EventsOf(s, "register") # << >>
Writable(s) == sockState[s] = "open" /\ ~ended[s]

\* the complete AVL frames of a byte stream according to the wire format:
\* a stream starts with IMEI frames, each AVL frame is 8 + L + 4 bytes
RECURSIVE streamFrames(_)
streamFrames(stream) ==
    IF Len(stream) < 4 THEN << >>
    ELSE IF isImeiPacket(stream)
    THEN streamFrames(Slice(stream, 2 + readUInt16BE(stream, 0)))
    ELSE IF Len(stream) >= 8 /\ readUInt32BE(stream, 0) = 0
            /\ Len(stream) >= 12 + readUInt32BE(stream, 4)
    THEN << Head0(stream, 12 + readUInt32BE(stream, 4)) >>
         \o streamFrames(Slice(stream, 12 + readUInt32BE(stream, 4)))
    ELSE << >>

\* the frames of a stream that decode with at least one record
decodedFrames(stream) ==
    SelectSeq(streamFrames(stream), LAMBDA f : Len(parseTeltonikaData(f)) > 0)

\* timestamps of the records of frames 1..i that the session dispatches
\* (those later than the server start), in order
RECURSIVE recordsUpTo(_, _)
recordsUpTo(frames, i) ==
    IF i = 0 THEN << >>
    ELSE recordsUpTo(frames, i - 1)
         \o timestampsOf(SelectSeq(parseTeltonikaData(frames[i]), isNewRecord))

\* timestamps handed over by the events of kind t among the first k events
RECURSIVE handedBefore(_, _, _)
handedBefore(events, k, t) ==
    IF k = 0 THEN << >>
    ELSE handedBefore(events, k - 1, t)
         \o (IF events[k].t = t
             THEN (IF t = "track" THEN SubSeq(events[k].v, 1, 1) ELSE events[k].v)
             ELSE << >>)

IsPrefix(a, b) == Len(a) <= Len(b) /\ SubSeq(b, 1, Len(a)) = a

\* position in out[s] of the i-th acknowledgement
AckPositions(s) == { k \in 1..Len(out[s]) : IsAckWrite(out[s][k]) }
AcksBefore(s, k) == Cardinality({ j \in AckPositions(s) : j <= k })

\* C1 (as claimed) -- Ack law: on every socket the i-th 4-byte
\* acknowledgement carries the record count of the i-th decodable AVL frame
\* received, there are never more acknowledgements than such frames, each is
\* written after every dispatched record of frames 1..i was handed to
\* processWalkTracking and to saveDeviceData, and once everything received is
\* processed on a writable socket each frame has its acknowledgement.
C1_AckLaw ==
    \A s \in Sockets :
        LET frames == decodedFrames(received[s]) IN
        /\ Cardinality(AckPositions(s)) <= Len(frames)
        /\ \A k \in AckPositions(s) :
              LET i == AcksBefore(s, k) IN
              i <= Len(frames) =>
                 /\ out[s][k].v = ackBuffer(Len(parseTeltonikaData(frames[i])))
                 /\ IsPrefix(recordsUpTo(frames, i), handedBefore(out[s], k, "track"))
                 /\ IsPrefix(recordsUpTo(frames, i), handedBefore(out[s], k, "save"))
        /\ (Writable(s) /\ chains[s] = << >> /\ inflight[s] = << >> /\ EventsOf(s, "write") # << >>)
              => Cardinality(AckPositions(s)) = Len(frames)

\* C2 (as claimed) -- Framing totality: when a stream was delivered in any
\* chunking, each chunk processed before the next arrived, the socket's
\* writes, registrations and dispatched records, its identity and the
\* registry equal those of the delivery in one chunk.
C2_FramingTotality ==
    \A s \in Sockets :
        (sockState[s] = "open" /\ inflight[s] = << >> /\ chains[s] = << >>
            /\ received[s] # << >>)
        => LET ref == oneChunk(received[s]) IN
           /\ out[s] = ref.out[1]
           /\ deviceImei[s] = ref.deviceImei[1]
           /\ DOMAIN activeDevices = DOMAIN ref.activeDevices

\* C3 (as claimed) -- IMEI identity: a socket registers at most once, and
\* after it registered its deviceImei is the registered identity, which is
\* a device the repository knows.
C3_ImeiIdentity ==
    \A s \in Sockets :
        LET regs == EventsOf(s, "register") IN
        /\ Len(regs) <= 1
        /\ regs # << >> => (deviceImei[s] = regs[1].v /\ getDeviceInfoByDeviceId(regs[1].v))

\* C4 (as claimed) -- Handshake first: on every socket no record is handed
\* to processWalkTracking or saveDeviceData and no acknowledgement is
\* written before the socket registered, and a socket whose buffer was
\* processed without any registration has been ended.
C4_HandshakeFirst ==
    \A s \in Sockets :
        /\ \A k \in 1..Len(out[s]) :
              (IsDispatch(out[s][k]) \/ IsAckWrite(out[s][k]))
              => \E j \in 1..(k - 1) : out[s][j].t = "register"
        /\ (received[s] # << >> /\ chains[s] = << >> /\ dataBuffer[s] = << >> /\ ~Registered(s))
              => ended[s]

\* C5 (as claimed) -- Unknown device: an IMEI the repository does not know
\* never has an entry in activeDevices, and a socket whose identity is such
\* an IMEI has written nothing.
C5_UnknownDevice ==
    /\ \A d \in DOMAIN activeDevices : getDeviceInfoByDeviceId(d)
    /\ \A s \in Sockets :
          (deviceImei[s] # NoImei /\ ~getDeviceInfoByDeviceId(deviceImei[s])
              /\ received[s] = ImeiFrame(deviceImei[s]))
          => EventsOf(s, "write") = << >>

\* C6 (as claimed) -- Registry replace on reconnect: two sockets that are
\* both still open and writable never both hold a registration of the same
\* device.
C6_ReplaceOnReconnect ==
    \A s, t \in Sockets :
        (s # t /\ Writable(s) /\ Writable(t) /\ Registered(s) /\ Registered(t))
        => deviceImei[s] # deviceImei[t]

\* C7 (as claimed) -- Token-checked unregister: the close handling of a
\* socket leaves every registry entry of another socket in place.
C7_TokenCheckedUnregister ==
    [][\A s \in Sockets :
          (sockState[s] = "open" /\ sockState'[s] = "closed")
          => \A d \in DOMAIN activeDevices :
                activeDevices[d] # s
                => (d \in DOMAIN activeDevices' /\ activeDevices'[d] = activeDevices[d])]_vars

\* C8 (as claimed) -- Registry cleanup: no registry entry refers to a
\* socket whose 'close' event has been handled.
C8_RegistryCleanup ==
    \A s \in Sockets :
        sockState[s] = "closed" => \A d \in DOMAIN activeDevices : activeDevices[d] # s

ActiveWalks(d) == { i \in 1..Len(walks) : walks[i].device = d /\ walks[i].isActive }

\* C9 (as claimed) -- Single active walk: the store never holds two walks
\* with isActive = true for one device.
C9_SingleActiveWalk ==
    \A d \in TrackDevices : Cardinality(ActiveWalks(d)) <= 1

\* C10 (as claimed) -- Walk closed at idle threshold: when a record with
\* timestamp ts takes a tracker from Saving to Idle, the walk that was the
\* device's active walk has isActive = false and endTime = ts afterwards.
C10_WalkClosedAtIdle ==
    [][\A d \in DOMAIN movementTracker :
          (movementTracker[d].isSaving /\ ~movementTracker'[d].isSaving)
          => \A i \in ActiveWalks(d) :
                /\ ~walks'[i].isActive
                /\ walks'[i].endTime = movementTracker'[d].lastMovement]_vars

\* the tracker of device d is in state Saving, WarmingUp or Idle
Saving(d) == d \in DOMAIN movementTracker /\ movementTracker[d].isSaving
WarmingUp(d) ==
    /\ d \in DOMAIN movementTracker
    /\ ~movementTracker[d].isSaving
    /\ movementTracker[d].movementStartTime # NoTime

\* C11 (as claimed) -- Teardown finalizes the tracker: when the 'close'
\* event of a socket with an identity is handled while the tracker of its
\* device is Saving or WarmingUp, the tracker is Idle afterwards, its
\* pending points are discarded, and no walk of the device is left active;
\* a walk that was active ends at the timestamp of its last point.
C11_TeardownFinalizes ==
    [][\A s \in Sockets :
          LET d == deviceImei[s] IN
          (sockState[s] = "open" /\ sockState'[s] = "closed" /\ d # NoImei
              /\ (Saving(d) \/ WarmingUp(d)))
          => /\ ~movementTracker'[d].isSaving
             /\ movementTracker'[d].movementStartTime = NoTime
             /\ pendingPoints'[d] = << >>
             /\ \A i \in 1..Len(walks') :
                   walks'[i].device = d
                   => /\ ~walks'[i].isActive
                      /\ (i \in ActiveWalks(d)
                          => walks'[i].endTime
                             = walks'[i].coordinates[Len(walks'[i].coordinates)].timestamp)]_vars

\* the step is one call processWalkTracking(d, record) that ran to its end
TrackStep(d, record) ==
    \E now \in WallClock : \E outcome \in StoreOutcomes :
        SetWorld(processWalkTracking(World, d, record, now, outcome))

\* C12 (as claimed) -- Warm-up requires continuous movement: a record with
\* valid coordinates that is not moving, processed while the tracker is
\* WarmingUp, resets movementStartTime, discards the pending points and
\* leaves the tracker Idle.
C12_WarmupContinuous ==
    [][\A d \in TrackDevices : \A record \in TrackRecords :
          (WarmingUp(d)
              /\ ~invalidCoordinates(record.latitude, record.longitude)
              /\ ~isMoving(record)
              /\ TrackStep(d, record))
          => /\ movementTracker'[d].movementStartTime = NoTime
             /\ ~movementTracker'[d].isSaving
             /\ pendingPoints'[d] = << >>]_vars

\* C13 (as claimed) -- Warm-up correctness: whenever a step adds a walk of
\* device d to the store, the walk starts with a point whose timestamp is
\* its startTime, all its points lie in the warm-up run that ends with the
\* record of the step, and that run spans at least the warm-up threshold.
C13_WarmupCorrectness ==
    [][\A d \in TrackDevices :
          (Len(walks') = Len(walks) + 1 /\ walks'[Len(walks')].device = d)
          => LET new == walks'[Len(walks')]
                 t_open == movementTracker'[d].lastMovement
             IN /\ new.coordinates # << >>
                /\ new.startTime = new.coordinates[1].timestamp
                /\ new.coordinates[Len(new.coordinates)].timestamp = t_open
                /\ t_open - new.startTime >= MOVEMENT_THRESHOLD]_vars

\* C14 (as claimed) -- Idle closure: whenever a step takes the tracker of a
\* device from Saving to not Saving, the timestamp of the record of that
\* step is at least IDLE_THRESHOLD later than the timestamp of the last
\* record of the device that was classified as moving.
C14_IdleClosure ==
    [][\A d \in DOMAIN movementTracker :
          (movementTracker[d].isSaving /\ ~movementTracker'[d].isSaving)
          => /\ d \in DOMAIN lastMoving
             /\ movementTracker'[d].lastMovement - lastMoving[d] >= IDLE_THRESHOLD]_vars

\* the position of the record is (0,0), or a coordinate is missing or NaN
rejectedPosition(record) ==
    \/ record.latitude = Undefined
    \/ record.longitude = Undefined
    \/ (record.latitude = 0 /\ record.longitude = 0)

\* C15 (as claimed) -- Coordinate rejection: a call of processWalkTracking
\* for a device that has a tracker leaves tracker, pending points and walks
\* unchanged when the position of the record is (0,0) or incomplete, and
\* evaluates every other record, so that lastMovement is its timestamp
\* afterwards.
C15_CoordinateRejection ==
    [][\A d \in TrackDevices : \A record \in TrackRecords :
          (d \in DOMAIN movementTracker /\ TrackStep(d, record))
          => IF rejectedPosition(record)
             THEN /\ movementTracker'[d] = movementTracker[d]
                  /\ pendingPoints' = pendingPoints
                  /\ walks' = walks
             ELSE movementTracker'[d].lastMovement = record.timestamp]_vars

\* the classification the decoded fields of a record call for: the movement
\* flag when the frame carried IO 240, the speed otherwise
inferredMoving(speed, movement) ==
    \/ movement = 1
    \/ (movement = MvAbsent /\ speed > SPEED_THRESHOLD_KMH)

\* C16 (as claimed) -- Movement inference: every record decoded from an AVL
\* frame is taken as moving by the tracker exactly when its movement flag
\* (IO 240) is present and true or, without a flag, when the speed the
\* decoder read is greater than SPEED_THRESHOLD_KMH.
C16_MovementInference ==
    \A s \in Sockets : \A i \in 1..Len(out[s]) :
        (out[s][i].t = "track" /\ out[s][i].v[7] = 8)
        => ((out[s][i].v[6] = 1) <=> inferredMoving(out[s][i].v[4], out[s][i].v[5]))

\* C17 (as claimed) -- Per-record dispatch: when the repository call made
\* for the records of an AVL frame succeeds, every record handed to it has been
\* appended, in the order of the frame; the append skips no record.
C17_EveryRecordAppended ==
    \A s \in Sockets : \A i \in 1..Len(saveLog[s]) :
        (saveLog[s][i].avl /\ saveLog[s][i].ok)
        => saveLog[s][i].appended = saveLog[s][i].handed

\* C18 (as claimed) -- Persistence failure is not acknowledged: when the
\* repository call made for the records of an AVL frame has failed, the
\* session writes no ack for that frame.
C18_NoAckAfterFailure ==
    \A s \in Sockets : \A i \in 1..Len(saveLog[s]) :
        (saveLog[s][i].avl /\ ~saveLog[s][i].ok /\ Len(out[s]) > saveLog[s][i].at)
        => ~IsAckWrite(out[s][saveLog[s][i].at + 1])

\* a 'data' event delivers the frame AvlBadCodec (codec id 7) as one chunk
\* to the logged-in socket s, which has an empty buffer and no pending call
MalformedDelivered(s) ==
    /\ inflight[s] # << >>
    /\ Head(inflight[s]) = AvlBadCodec
    /\ received'[s] = received[s] \o AvlBadCodec
    /\ deviceImei[s] # NoImei
    /\ chains[s] = << >>
    /\ dataBuffer[s] = << >>

\* C19 (as claimed) -- Malformed frame closes the session: when a whole AVL
\* frame whose codec id is neither 0x08 nor 0x8E has been processed, no ack
\* has been written for it and the session has been closed.
C19_MalformedCloses ==
    [][\A s \in Sockets :
          MalformedDelivered(s)
          => /\ out'[s] = out[s]
             /\ ~(sockState'[s] = "open" /\ ~ended'[s])]_vars

\* the bytes socket s has received after its login are MaxGarbage bytes that
\* start no frame, or more
ResyncExhausted(s) == IsPrefix(LoginA \o Garbage, received[s])

\* socket s has received its login, fewer than MaxGarbage bytes that start
\* no frame and the frame Avl1, and has processed all of it
ResyncedFrame(s) ==
    /\ \E n \in ResyncLengths :
          n < MaxGarbage /\ received[s] = LoginA \o GarbageBytes(n) \o Avl1
    /\ chains[s] = << >>

\* C20 (as claimed) -- Bounded resync: a frame that follows fewer than 1024
\* bytes of garbage is accepted and acknowledged, and a session that has
\* dropped 1024 consecutive bytes without a frame has been terminated.
C20_BoundedResync ==
    \A s \in Sockets :
        /\ ResyncedFrame(s)
           => (\E k \in 1..Len(out[s]) : out[s][k] = [t |-> "write", v |-> ackBuffer(1)])
        /\ ResyncExhausted(s) => ~Writable(s)

\* C27 (as claimed) -- One dispatch chain per session: for one socket at
\* most one processBuffer chain is in flight at any time; a 'data' event
\* that arrives while a chain is suspended on a repository call starts no
\* second chain.
C27_OneChainPerSession ==
    \A s \in Sockets : Len(chains[s]) <= 1

\* what is left of a byte stream once the complete IMEI and AVL frames at
\* its head are taken off: empty, or the part of a frame that has arrived
RECURSIVE streamTail(_)
streamTail(stream) ==
    IF isImeiPacket(stream)
    THEN streamTail(Slice(stream, 2 + readUInt16BE(stream, 0)))
    ELSE IF Len(stream) >= 8 /\ readUInt32BE(stream, 0) = 0
            /\ Len(stream) >= 12 + readUInt32BE(stream, 4)
    THEN streamTail(Slice(stream, 12 + readUInt32BE(stream, 4)))
    ELSE stream

IsSuffix(a, b) == Len(a) <= Len(b) /\ SubSeq(b, Len(b) - Len(a) + 1, Len(b)) = a

\* C29 (as claimed) -- No consumption before a complete frame: of a stream
\* of well-formed frames processBuffer removes complete frames only, so the
\* part of an IMEI or AVL frame that has arrived is still at the end of the
\* buffer.
C29_PartialFrameKept ==
    \A s \in Sockets :
        sockState[s] = "open" => IsSuffix(streamTail(received[s]), dataBuffer[s])

\* a complete IMEI frame or a complete AVL frame lies at the head
completeFrameAtHead(buffer) ==
    \/ isImeiPacket(buffer)
    \/ /\ Len(buffer) >= 8
       /\ readUInt32BE(buffer, 0) = 0
       /\ Len(buffer) >= 12 + readUInt32BE(buffer, 4)

C24_DrainingAfterRefusal ==
    \A s \in Sockets : \A i \in 1..Len(out[s]) :
        out[s][i].t = "refused"
        => \A j \in (i + 1)..Len(out[s]) : ~IsDispatch(out[s][j])

\* socket s has received its login and the Codec 8 Extended frame Avl8E and
\* has processed both
Extended8EProcessed(s) ==
    /\ received[s] = LoginA \o Avl8E
    /\ Writable(s)
    /\ Registered(s)
    /\ chains[s] = << >>

\* C26 (as claimed) -- Codec 8 Extended widths: the fields of a frame with
\* codec id 0x8E are decoded with their 16-bit widths, so the record of the
\* frame Avl8E is decoded with its timestamp, position, speed and movement
\* flag, handed on, and acknowledged with the record count 1.
C26_ExtendedWidths ==
    \A s \in Sockets :
        Extended8EProcessed(s)
        => /\ \E k \in 1..Len(out[s]) :
                 /\ out[s][k].t = "track"
                 /\ SubSeq(out[s][k].v, 1, 5) = << 61000, 7, 9, 5, 1 >>
           /\ \E k \in 1..Len(out[s]) : out[s][k] = [t |-> "write", v |-> ackBuffer(1)]

\* C25 (as claimed) -- Store failure at runtime never terminates the
\* process: the process exits because of the store only when the initial
\* connection could not be made; once the store has been connected, a lost
\* or failing connection leaves the process running.
C25_NoExitAtRuntime ==
    procState = "exited" => ~everConnected

\* C28 (as claimed) -- bytes that arrive on a connection while a dispatch
\* of that connection is still running are appended to its buffer: every
\* byte a 'data' event of the src/utils.js server has delivered has been
\* appended to dataBuffer, none is discarded.
C28_NoChunkDiscarded == \A c \in DOMAIN conn : conn[c].buffered = conn[c].received

\* C21 (as claimed) -- a frame that isRateLimited refuses is consumed, none
\* of its records is dispatched, and the session of src/utils.js still
\* writes for it a 4-byte big-endian ack with value 0: the entry of the log
\* that follows a rate-limited frame is the write of 00 00 00 00.
C21_RateLimitedAckZero ==
    \A c \in DOMAIN conn :
        \A i \in 1..Len(conn[c].log) :
            conn[c].log[i].t = "limited"
                => /\ i < Len(conn[c].log)
                   /\ conn[c].log[i + 1] = Event("write", << 0, 0, 0, 0 >>)

\* C22 (as claimed) -- the number of simultaneously open sessions of the
\* src/utils.js server never exceeds maxConnections, whether or not the
\* open connections have sent their IMEI frame.
C22_SessionCap ==
    Cardinality({ c \in DOMAIN conn : conn[c].state = "open" }) <= maxConnections

\* C23 (as claimed) -- the per-connection buffer of src/deviceServer.js
\* never grows beyond the cap of 1 MiB: a 'data' chunk that would make it
\* exceed the cap fails and the session is closed, so no state has a
\* dataBuffer of more than 1048576 bytes.
C23_BufferCap == \A s \in Sockets : PackedLen(dataBuffer[s]) <= 1048576

\* the records of a decoded frame that are later than the server start
NewOf(timestamps) == SelectSeq(timestamps, LAMBDA t : t > SERVER_START_TIME)

\* C39 -- Historical records are acknowledged but not dispatched: a record
\* of an AVL frame whose timestamp is not later than the server start is
\* never handed to processWalkTracking or to saveDeviceData; after a frame
\* is decoded exactly its later records are handed over, in order, and the
\* write that follows is the ack with the count of all records of the
\* frame, so a frame made only of historical records is acknowledged with
\* its full count and nothing of it is dispatched.
C39_HistoricalAckedNotDispatched ==
    \A s \in Sockets :
        /\ \A k \in 1..Len(out[s]) :
              (out[s][k].t = "track" /\ out[s][k].v[7] # 0)
              => out[s][k].v[1] > SERVER_START_TIME
        /\ \A k \in 1..Len(saveLog[s]) :
              saveLog[s][k].avl
              => \A j \in 1..Len(saveLog[s][k].handed) :
                    saveLog[s][k].handed[j] > SERVER_START_TIME
        /\ \A k \in 1..Len(out[s]) :
              out[s][k].t = "frame"
              => LET new == NewOf(out[s][k].v)
                     m == Len(new)
                     a == k + m + (IF m > 0 THEN 2 ELSE 1)
                 IN
                 /\ k + m <= Len(out[s])
                 /\ \A j \in 1..m : /\ out[s][k + j].t = "track"
                                    /\ out[s][k + j].v[1] = new[j]
                 /\ m > 0 => (k + m + 1 <= Len(out[s])
                              /\ out[s][k + m + 1] = Event("save", new))
                 /\ m = 0 => a <= Len(out[s])
                 /\ a <= Len(out[s])
                       => /\ out[s][a].t \in { "write", "refused" }
                          /\ out[s][a].v = ackBuffer(Len(out[s][k].v))

\* a frame of one historical record and a frame of one new record were
\* processed: two acks of count 1, one record handed over
C39_OldFrameAcked ==
    /\ received[1] = LoginA \o AvlOld \o Avl1
    /\ chains[1] = << >>
    /\ dataBuffer[1] = << >>
    /\ Cardinality(AckPositions(1)) = 2
    /\ \A k \in AckPositions(1) : out[1][k].v = << 0, 0, 0, 1 >>
    /\ Len(EventsOf(1, "track")) = 1
    /\ Len(EventsOf(1, "frame")) = 2

\* the events a step appends to the output of socket s
Appended(s) == SubSeq(out'[s], Len(out[s]) + 1, Len(out'[s]))

\* C40 (as claimed) -- Error inside processBuffer: a step in which the
\* catch of processBuffer runs leaves socket.dataBuffer empty, writes
\* nothing for the frame that was being processed, and leaves the socket
\* open and its device registered.
C40_ErrorResetsBuffer ==
    [][\A s \in Sockets :
          (\E k \in 1..Len(Appended(s)) : Appended(s)[k].t = "caught")
          => /\ dataBuffer'[s] = << >>
             /\ \A k \in 1..Len(Appended(s)) : Appended(s)[k].t \notin { "write", "refused" }
             /\ sockState'[s] = sockState[s]
             /\ ended'[s] = ended[s]
             /\ deviceImei'[s] \in DOMAIN activeDevices']_vars

\* C32 (as claimed) -- Walk timestamps are ordered: for every walk of the
\* store, startTime <= ts(coordinates[i]) <= ts(coordinates[i+1]) <= endTime
\* (when the walk has an endTime), whatever the order of the timestamps of
\* the records a device sends.
C32_WalkTimestampsOrdered ==
    \A w \in 1..Len(walks) :
        LET c == walks[w].coordinates IN
        /\ \A i \in 1..Len(c) :
              /\ walks[w].startTime <= c[i].timestamp
              /\ walks[w].endTime # NoTime => c[i].timestamp <= walks[w].endTime
        /\ \A i \in 1..(Len(c) - 1) : c[i].timestamp <= c[i + 1].timestamp

\* the tracker, the pending points or the walks of device d differ between
\* the two states of a step
Touched(d) ==
    \/ (d \in DOMAIN movementTracker') # (d \in DOMAIN movementTracker)
    \/ (d \in DOMAIN movementTracker /\ movementTracker'[d] # movementTracker[d])
    \/ (d \in DOMAIN pendingPoints') # (d \in DOMAIN pendingPoints)
    \/ (d \in DOMAIN pendingPoints /\ pendingPoints'[d] # pendingPoints[d])
    \/ SelectSeq(walks', LAMBDA w : w.device = d) # SelectSeq(walks, LAMBDA w : w.device = d)

\* C34 -- Cross-device independence: a call processWalkTracking(d, record)
\* changes the tracker, the pending points and the walks of one device
\* only; no step touches the state of two devices, for any interleaving of
\* the records of different devices.
C34_CrossDeviceIndependence ==
    [][\A d, e \in TrackDevices : (d # e /\ Touched(d)) => ~Touched(e)]_vars

\* both devices have a tracker, device A has a walk of three points or more
\* and device B has a walk of its own
C34_TwoDevicesTracked ==
    /\ TrackDevices \subseteq DOMAIN movementTracker
    /\ \E i, j \in 1..Len(walks) :
          /\ walks[i].device = ImeiA /\ Len(walks[i].coordinates) >= 3
          /\ walks[j].device = ImeiB

\* C36 (as claimed) -- Saving implies an active walk: after every call of
\* processWalkTracking that leaves the tracker of device d Saving, the
\* store holds an active walk of d, and when the call is the one that
\* crossed the warm-up threshold the walk starts with the points that were
\* pending; also when saveWalkPath returned null or threw.
C36_SavingHasActiveWalk ==
    [][\A d \in TrackDevices :
          (d \in DOMAIN movementTracker' /\ movementTracker'[d].isSaving)
          => \E i \in 1..Len(walks') :
                /\ walks'[i].device = d
                /\ walks'[i].isActive
                /\ (~Saving(d) /\ d \in DOMAIN pendingPoints)
                      => IsPrefix(pendingPoints[d], walks'[i].coordinates)]_vars

\* C38 (as claimed) -- Pending points are empty while Saving: whenever
\* processWalkTracking has returned with isSaving true for device d,
\* pendingPoints[d] is empty.
C38_NoPendingWhileSaving ==
    \A d \in TrackDevices :
        (Saving(d) /\ d \in DOMAIN pendingPoints) => pendingPoints[d] = << >>

\* C35 (as claimed) -- Each stream byte is consumed exactly once: under any
\* interleaving of 'data' events with suspended processBuffer chains, the
\* frames a socket decodes are the decodable frames of its stream, each
\* once and in order (no frame is dispatched twice), and once everything
\* received is processed on a writable socket every such frame was decoded
\* (no byte of a following frame was removed without being decoded).
C35_ConsumedExactlyOnce ==
    \A s \in Sockets :
        LET frames == decodedFrames(received[s])
            decoded == EventsOf(s, "frame")
        IN
        /\ Len(decoded) <= Len(frames)
        /\ \A i \in 1..Len(decoded) :
              i <= Len(frames)
              => decoded[i].v = timestampsOf(parseTeltonikaData(frames[i]))
        /\ (Writable(s) /\ Registered(s) /\ chains[s] = << >> /\ inflight[s] = << >>)
              => Len(decoded) = Len(frames)

\* C37: per socket at most one no-data timer is pending, and it is the one
\* the socket remembers; no timer is pending while a 'data' event of the
\* socket is still being processed (a pending timer was armed after the
\* processing of the most recent 'data' event), and none stays pending once
\* the 'close' event was handled
C37_NoStaleTimer ==
    \A s \in Sockets :
        /\ Cardinality(pendingTimers[s]) <= 1
        /\ pendingTimers[s] \subseteq {timeoutHandler[s]}
        /\ chains[s] # << >> => pendingTimers[s] = {}
        /\ sockState[s] = "closed" => pendingTimers[s] = {}

\* what holds of an updateWalkPath call of src/database.js at any moment
RetriesBounded ==
    LET c == updateCall IN
    /\ c.attempts <= 3
    /\ Len(c.errors) >= c.attempts - 1
    /\ \A i \in 1..Len(c.errors) :
          i < c.attempts => c.errors[i] \in { "ECONNRESET", "ETIMEDOUT" }
    /\ c.pc = "delay" => /\ Len(c.errors) = c.attempts
                         /\ c.errors[Len(c.errors)] \in { "ECONNRESET", "ETIMEDOUT" }
    /\ c.pc = "returned" =>
          \/ c.result = Null
          \/ /\ c.result \in 1..Len(walks)
             /\ walks[c.result].device = c.deviceId
             /\ walks[c.result].coordinates[Len(walks[c.result].coordinates)] = c.point
    /\ c.pc = "idle" => Len(c.log) = c.calls
    /\ \A i \in 1..Len(c.log) : c.log[i] \in { "failed", "updated" }

C31_DistanceIsRoundedSum ==
    [][\A i \in 1..Len(walks') :
          walks'[i].distance # Undefined =>
              /\ walks'[i].distance = round(pathLength(walks'[i].coordinates))
              /\ (i <= Len(walks) /\ walks[i].distance # Undefined)
                    => walks'[i].distance >= walks[i].distance]_vars

====
